---- MODULE Spec2Model ----
(***************************************************************************)
(* GatomiaAnalyzer (codewiki_analyzer.py): module tree parser, component   *)
(* map builder, reverse dependency index, processing order scheduler, the  *)
(* component-level and module-level dependency analyzers, the role         *)
(* heuristic, the module report and the repository summary;                *)
(* GatomiaOrchestrator (orchestrator.py): the documentation run over the   *)
(* processing order; DiagramGenerator (diagram_generator.py): the          *)
(* architecture diagram.                                                   *)
(*                                                                         *)
(* A float is modelled as an exact fraction [num, den]; a formatted string *)
(* as the tuple of its pieces.                                             *)
(*                                                                         *)
(* A Python dict is an insertion-ordered map; it is modelled as a sequence *)
(* of <<key, value>> pairs with pairwise distinct keys.  A Python list is  *)
(* a sequence, a Python set is a set.                                      *)
(***************************************************************************)
EXTENDS Integers, Sequences, FiniteSets, TLC

VARIABLES module_tree, dependency_graph, parsed_tree, component_map,
          reverse_deps, pc, result,
          generated_docs, files, step, raised, processing_order,
          level_idx, module_idx,
          readers

\* the analyzer: its two inputs, its three structures, the position of its
\* constructor and the value of the last query
analyzer_vars == <<module_tree, dependency_graph, parsed_tree, component_map,
                   reverse_deps, pc, result>>

\* the orchestrator: generated_docs, the files below output_dir, the step of
\* generate_all_documentation, the exception that ended it, and its locals
orchestrator_vars == <<generated_docs, files, step, raised, processing_order,
                       level_idx, module_idx>>

\* the callers that query the analyzer at the same time: for each, where it
\* is in its call and the value the call returned
reader_vars == <<readers>>

vars == <<module_tree, dependency_graph, parsed_tree, component_map,
          reverse_deps, pc, result,
          generated_docs, files, step, raised, processing_order,
          level_idx, module_idx,
          readers>>

(***************************************************************************)
(* Bounds of the model and the alphabets the inputs are drawn from.        *)
(***************************************************************************)
MaxNodes == 3

MaxDepth == 3

MaxEdges == 2
MaxFanOut == 12

\* Python's None, as the value of a str | None field
None == "None"

\* an attribute that is still None; like an empty dict it is falsy
Unset == <<>>

\* module path keys, listed in Python's string order ("a" < "a/b" < "b")
PathOrder == <<"a", "a/b", "b">>

Paths == {PathOrder[i] : i \in 1..Len(PathOrder)}

\* component ids, in the order the generated graphs list their keys
CompOrder == <<"a.X", "a.b.Y", "Z">>

CompIds == {CompOrder[i] : i \in 1..Len(CompOrder)}

(***************************************************************************)
(* Python built-ins                                                        *)
(***************************************************************************)
\* list(d.keys())
Keys(d) == [i \in 1..Len(d) |-> d[i][1]]

\* set(d.keys())
KeySet(d) == {d[i][1] : i \in 1..Len(d)}

\* k in d
Has(d, k) == \E i \in 1..Len(d) : d[i][1] = k

\* d[k]
Lookup(d, k) == d[CHOOSE i \in 1..Len(d) : d[i][1] = k][2]

\* d[k] = v : an existing key keeps its position, a new key is appended
Put(d, k, v) ==
    IF Has(d, k)
    THEN [i \in 1..Len(d) |-> IF d[i][1] = k THEN <<k, v>> ELSE d[i]]
    ELSE Append(d, <<k, v>>)

\* rec.get(field, default) on a JSON object
Get(rec, field, default) ==
    IF field \in DOMAIN rec THEN rec[field] ELSE default

\* truthiness of a str | None value: None and "" are falsy
Truthy(x) == x # None /\ x # ""

\* the elements of a list
Range(s) == {s[i] : i \in 1..Len(s)}

\* max(...) of a non-empty collection of ints
Max(S) == CHOOSE x \in S : \A y \in S : y <= x

(***************************************************************************)
(* parse_module_tree                                                       *)
(***************************************************************************)
\* an assignment that keeps the module that listed the component first
RECURSIVE assign_components_first_wins(_, _, _)
assign_components_first_wins(c2m, components, module_path) ==
    IF components = <<>> THEN c2m
    ELSE assign_components_first_wins(
           IF Has(c2m, Head(components)) THEN c2m
           ELSE Put(c2m, Head(components), module_path),
           Tail(components), module_path)

RECURSIVE assign_components(_, _, _)
\* for component_id in components: component_to_module[component_id] = module_path
assign_components(c2m, components, module_path) ==
    IF components = <<>> THEN c2m
    ELSE assign_components(Put(c2m, Head(components), module_path),
                           Tail(components), module_path)

\* a parser that numbers the levels from 1
module_record_from_one(module_path, module_data, parent_path, level) ==
    [path       |-> module_path,
     components |-> Get(module_data, "components", <<>>),
     children   |-> Get(module_data, "children", <<>>),
     parent     |-> parent_path,
     is_leaf    |-> Len(Get(module_data, "children", <<>>)) = 0,
     level      |-> level + 1]

\* the record stored in result["modules"][module_path]
module_record(module_path, module_data, parent_path, level) ==
    [path       |-> module_path,
     components |-> Get(module_data, "components", <<>>),
     children   |-> Get(module_data, "children", <<>>),
     parent     |-> parent_path,
     is_leaf    |-> Len(Get(module_data, "children", <<>>)) = 0,
     level      |-> level]

\* a parser that files the modules in the wrong list
list_module_swapped(res, module_path, is_leaf, parent_path) ==
    LET r2 == IF is_leaf
              THEN [res EXCEPT !.parent_modules = Append(@, module_path)]
              ELSE [res EXCEPT !.leaf_modules = Append(@, module_path)]
    IN IF parent_path = None
       THEN [r2 EXCEPT !.root_modules = Append(@, module_path)]
       ELSE r2

\* append the path to leaf_modules or parent_modules, and to root_modules
list_module(res, module_path, is_leaf, parent_path) ==
    LET r2 == IF is_leaf
              THEN [res EXCEPT !.leaf_modules = Append(@, module_path)]
              ELSE [res EXCEPT !.parent_modules = Append(@, module_path)]
    IN IF parent_path = None
       THEN [r2 EXCEPT !.root_modules = Append(@, module_path)]
       ELSE r2

RECURSIVE traverse(_, _, _, _)
traverse(res, modules_dict, parent_path, level) ==
    IF modules_dict = <<>> THEN res
    ELSE
      LET module_path == Head(modules_dict)[1]
          module_data == Head(modules_dict)[2]
          is_leaf     == Len(Get(module_data, "children", <<>>)) = 0
          r1 == [res EXCEPT !.modules =
                    Put(@, module_path,
                        module_record(module_path, module_data, parent_path, level))]
          r3 == list_module(r1, module_path, is_leaf, parent_path)
          r4 == [r3 EXCEPT !.component_to_module =
                    assign_components(@, Get(module_data, "components", <<>>),
                                      module_path)]
          r5 == IF Len(Get(module_data, "children", <<>>)) > 0
                THEN traverse(r4, module_data.children, module_path, level + 1)
                ELSE r4
      IN traverse(r5, Tail(modules_dict), parent_path, level)

parse_module_tree(tree) ==
    traverse([modules             |-> <<>>,
              leaf_modules        |-> <<>>,
              parent_modules      |-> <<>>,
              root_modules        |-> <<>>,
              component_to_module |-> <<>>],
             tree, None, 0)

(***************************************************************************)
(* get_processing_order                                                    *)
(***************************************************************************)
\* a filter that compares the level with >= instead of ==
RECURSIVE paths_at_level_or_deeper(_, _)
paths_at_level_or_deeper(modules, level) ==
    IF modules = <<>> THEN <<>>
    ELSE (IF Head(modules)[2].level >= level THEN <<Head(modules)[1]>> ELSE <<>>)
         \o paths_at_level_or_deeper(Tail(modules), level)

\* [path for path, info in modules.items() if info["level"] == level]
RECURSIVE paths_at_level(_, _)
paths_at_level(modules, level) ==
    IF modules = <<>> THEN <<>>
    ELSE (IF Head(modules)[2].level = level THEN <<Head(modules)[1]>> ELSE <<>>)
         \o paths_at_level(Tail(modules), level)

\* a scheduler that lists the levels top-down
RECURSIVE order_up(_, _, _)
order_up(modules, level, max_level) ==
    IF level > max_level THEN <<>>
    ELSE LET level_modules == paths_at_level(modules, level)
         IN (IF Len(level_modules) > 0 THEN <<level_modules>> ELSE <<>>)
            \o order_up(modules, level + 1, max_level)

order_from_top_down(modules, level) == order_up(modules, 0, level)

\* a scheduler whose range stops before level 0
RECURSIVE order_from_above_zero(_, _)
order_from_above_zero(modules, level) ==
    IF level < 1 THEN <<>>
    ELSE LET level_modules == paths_at_level(modules, level)
         IN (IF Len(level_modules) > 0 THEN <<level_modules>> ELSE <<>>)
            \o order_from_above_zero(modules, level - 1)

\* for level in range(max_level, -1, -1): append the non-empty level lists
RECURSIVE order_from(_, _)
order_from(modules, level) ==
    IF level < 0 THEN <<>>
    ELSE LET level_modules == paths_at_level(modules, level)
         IN (IF Len(level_modules) > 0 THEN <<level_modules>> ELSE <<>>)
            \o order_from(modules, level - 1)

\* if not self.parsed_tree: self.parsed_tree = self.parse_module_tree()
ensure_parsed(pt, tree) ==
    IF pt = Unset THEN parse_module_tree(tree) ELSE pt

\* max() of an empty sequence raises ValueError
get_processing_order(pt) ==
    IF pt.modules = <<>>
    THEN [raised |-> "ValueError"]
    ELSE [ret |-> order_from(pt.modules,
                      Max({pt.modules[i][2].level : i \in 1..Len(pt.modules)}))]

(***************************************************************************)
(* build_component_map                                                     *)
(***************************************************************************)
\* comp_id.split(".")[-1]
LastSegment(comp_id) ==
    CASE comp_id = "a.X"   -> "X"
      [] comp_id = "a.b.Y" -> "Y"
      [] OTHER             -> comp_id

\* first loop: one record per entry of the dependency graph
RECURSIVE component_records(_, _)
component_records(comp_map, graph) ==
    IF graph = <<>> THEN comp_map
    ELSE
      LET comp_id   == Head(graph)[1]
          comp_data == Head(graph)[2]
      IN component_records(
           Put(comp_map, comp_id,
               [id               |-> Get(comp_data, "id", comp_id),
                name             |-> Get(comp_data, "name", LastSegment(comp_id)),
                component_type   |-> Get(comp_data, "component_type", "unknown"),
                file_path        |-> Get(comp_data, "file_path", ""),
                relative_path    |-> Get(comp_data, "relative_path", ""),
                depends_on       |-> Get(comp_data, "depends_on", <<>>),
                depended_by      |-> <<>>,
                module           |-> None,
                dependency_count |-> Len(Get(comp_data, "depends_on", <<>>)),
                dependent_count  |-> 0]),
           Tail(graph))

\* second loop: attach the module of every component the tree lists
attach_modules(comp_map, c2m) ==
    [i \in 1..Len(comp_map) |->
        IF Has(c2m, comp_map[i][1])
        THEN <<comp_map[i][1],
               [comp_map[i][2] EXCEPT !.module = Lookup(c2m, comp_map[i][1])]>>
        ELSE comp_map[i]]

\* a map whose records drop the dependencies that are not keys of the graph
build_component_map_without_dangling(graph, pt) ==
    LET built == IF pt # Unset
                 THEN attach_modules(component_records(<<>>, graph),
                                     pt.component_to_module)
                 ELSE component_records(<<>>, graph)
        kept(i) == SelectSeq(built[i][2].depends_on, LAMBDA t : Has(graph, t))
    IN [i \in 1..Len(built) |->
          <<built[i][1], [built[i][2] EXCEPT !.depends_on = kept(i),
                                             !.dependency_count = Len(kept(i))]>>]

\* parsed_tree is a dict of five keys, hence truthy once it is set
build_component_map(graph, pt) ==
    IF pt # Unset
    THEN attach_modules(component_records(<<>>, graph), pt.component_to_module)
    ELSE component_records(<<>>, graph)

(***************************************************************************)
(* _build_reverse_dependencies                                             *)
(***************************************************************************)
\* an index that keeps only the last dependent of each target
RECURSIVE add_dependent_overwriting(_, _, _)
add_dependent_overwriting(reverse, depends_on, comp_id) ==
    IF depends_on = <<>> THEN reverse
    ELSE add_dependent_overwriting(Put(reverse, Head(depends_on), <<comp_id>>),
                                   Tail(depends_on), comp_id)

\* reverse[dep_id].append(comp_id) on a defaultdict(list)
RECURSIVE add_dependent(_, _, _)
add_dependent(reverse, depends_on, comp_id) ==
    IF depends_on = <<>> THEN reverse
    ELSE LET dep_id == Head(depends_on)
             old    == IF Has(reverse, dep_id) THEN Lookup(reverse, dep_id) ELSE <<>>
         IN add_dependent(Put(reverse, dep_id, Append(old, comp_id)),
                          Tail(depends_on), comp_id)

\* for comp_id, comp_info in component_map.items(): for dep_id in depends_on
RECURSIVE invert_edges(_, _)
invert_edges(reverse, comp_map) ==
    IF comp_map = <<>> THEN reverse
    ELSE invert_edges(add_dependent(reverse, Head(comp_map)[2].depends_on,
                                    Head(comp_map)[1]),
                      Tail(comp_map))

\* an update that stores depended_by and forgets dependent_count
store_dependents_without_count(comp_map, reverse) ==
    [i \in 1..Len(comp_map) |->
        IF Has(reverse, comp_map[i][1])
        THEN <<comp_map[i][1],
               [comp_map[i][2] EXCEPT
                  !.depended_by = Lookup(reverse, comp_map[i][1])]>>
        ELSE comp_map[i]]

\* for comp_id, dependents in reverse.items(): update the records in place
store_dependents(comp_map, reverse) ==
    [i \in 1..Len(comp_map) |->
        IF Has(reverse, comp_map[i][1])
        THEN <<comp_map[i][1],
               [comp_map[i][2] EXCEPT
                  !.depended_by     = Lookup(reverse, comp_map[i][1]),
                  !.dependent_count = Len(Lookup(reverse, comp_map[i][1]))]>>
        ELSE comp_map[i]]

\* a reverse map that keeps the targets of the component map only
build_reverse_dependencies_known_only(comp_map) ==
    LET reverse == IF Len(comp_map) > 0
                   THEN SelectSeq(invert_edges(<<>>, comp_map),
                                  LAMBDA kv : Has(comp_map, kv[1]))
                   ELSE <<>>
    IN [reverse_deps  |-> reverse,
        component_map |-> IF Len(comp_map) > 0
                          THEN store_dependents(comp_map, reverse)
                          ELSE comp_map]

\* returns the reverse map and the component map as updated in place;
\* an empty component map is falsy and leaves both untouched
build_reverse_dependencies(comp_map) ==
    LET reverse == IF Len(comp_map) > 0
                   THEN invert_edges(<<>>, comp_map)
                   ELSE <<>>
    IN [reverse_deps  |-> reverse,
        component_map |-> IF Len(comp_map) > 0
                          THEN store_dependents(comp_map, reverse)
                          ELSE comp_map]

(***************************************************************************)
(* analyze_dependencies                                                    *)
(***************************************************************************)
\* the position of a module path in Python's string order
PathRank(p) == CHOOSE i \in 1..Len(PathOrder) : PathOrder[i] = p

\* a sort in descending order
RECURSIVE SortedPathsDescending(_)
SortedPathsDescending(S) ==
    IF S = {} THEN <<>>
    ELSE LET last == CHOOSE x \in S : \A y \in S : PathRank(y) <= PathRank(x)
         IN <<last>> \o SortedPathsDescending(S \ {last})

\* sorted(set of module paths)
RECURSIVE SortedPaths(_)
SortedPaths(S) ==
    IF S = {} THEN <<>>
    ELSE LET first == CHOOSE x \in S : \A y \in S : PathRank(x) <= PathRank(y)
         IN <<first>> \o SortedPaths(S \ {first})

\* a comparison under which a component without a module is internal to none
same_module_when_assigned(dep_module, comp_module) ==
    dep_module = comp_module /\ comp_module # None

\* dep_comp["module"] == comp_module
same_module(dep_module, comp_module) == dep_module = comp_module

\* one of the two classification loops; acc = [internal, external, modules]
RECURSIVE classify(_, _, _, _)
classify(acc, ids, comp_module, comp_map) ==
    IF ids = <<>> THEN acc
    ELSE
      LET dep_id == Head(ids)
      IN IF Has(comp_map, dep_id)
         THEN
           LET dep_comp == Lookup(comp_map, dep_id)
               dep_info == [id   |-> dep_id,
                            name |-> dep_comp.name,
                            type |-> dep_comp.component_type]
           IN IF same_module(dep_comp.module, comp_module)
              THEN classify([acc EXCEPT !.internal = Append(@, dep_info)],
                            Tail(ids), comp_module, comp_map)
              ELSE classify(
                     [acc EXCEPT
                        !.external = Append(@, dep_info @@ [module |-> dep_comp.module]),
                        !.modules  = IF Truthy(dep_comp.module)
                                     THEN @ \cup {dep_comp.module} ELSE @],
                     Tail(ids), comp_module, comp_map)
         ELSE classify(acc, Tail(ids), comp_module, comp_map)

analyze_dependencies(comp_map, component_id) ==
    IF Len(comp_map) = 0 \/ ~Has(comp_map, component_id)
    THEN [error                 |-> "not found",
          internal_dependencies |-> <<>>,
          external_dependencies |-> <<>>,
          internal_dependents   |-> <<>>,
          external_dependents   |-> <<>>,
          dependency_modules    |-> <<>>,
          dependent_modules     |-> <<>>]
    ELSE
      LET comp_info   == Lookup(comp_map, component_id)
          comp_module == comp_info.module
          empty       == [internal |-> <<>>, external |-> <<>>, modules |-> {}]
          deps        == classify(empty, comp_info.depends_on, comp_module, comp_map)
          dependents  == classify(empty, comp_info.depended_by, comp_module, comp_map)
      IN [internal_dependencies |-> deps.internal,
          external_dependencies |-> deps.external,
          internal_dependents   |-> dependents.internal,
          external_dependents   |-> dependents.external,
          dependency_modules    |-> SortedPaths(deps.modules),
          dependent_modules     |-> SortedPaths(dependents.modules)]

(***************************************************************************)
(* analyze_module_dependencies                                             *)
(***************************************************************************)
\* a grouping that keeps only the last relationship of a module
group_append_overwriting(groups, key, rel) ==
    Put(groups, key, <<rel>>)

\* groups[key].append(rel) on a defaultdict(list)
group_append(groups, key, rel) ==
    Put(groups, key,
        Append(IF Has(groups, key) THEN Lookup(groups, key) ELSE <<>>, rel))

\* the loop over comp_info["depends_on"]; acc = [internal, external]
RECURSIVE module_outgoing(_, _, _, _, _)
module_outgoing(acc, depends_on, comp_id, module_path, comp_map) ==
    IF depends_on = <<>> THEN acc
    ELSE
      LET dep_id == Head(depends_on)
          rest   == Tail(depends_on)
      IN IF Has(comp_map, dep_id)
         THEN
           LET dep_module == Lookup(comp_map, dep_id).module
           IN IF dep_module = module_path
              THEN module_outgoing(
                     [acc EXCEPT !.internal =
                        Append(@, [from |-> comp_id, to |-> dep_id,
                                   type |-> "depends_on"])],
                     rest, comp_id, module_path, comp_map)
              ELSE IF Truthy(dep_module)
              THEN module_outgoing(
                     [acc EXCEPT !.external =
                        group_append(@, dep_module,
                                     [from_component |-> comp_id,
                                      to_component   |-> dep_id])],
                     rest, comp_id, module_path, comp_map)
              ELSE module_outgoing(acc, rest, comp_id, module_path, comp_map)
         ELSE module_outgoing(acc, rest, comp_id, module_path, comp_map)

\* the loop over comp_info["depended_by"]; groups = external_dependents_by_module
RECURSIVE module_incoming(_, _, _, _, _)
module_incoming(groups, depended_by, comp_id, module_path, comp_map) ==
    IF depended_by = <<>> THEN groups
    ELSE
      LET dependent_id == Head(depended_by)
          rest         == Tail(depended_by)
      IN IF Has(comp_map, dependent_id)
         THEN
           LET dependent_module == Lookup(comp_map, dependent_id).module
           IN IF Truthy(dependent_module) /\ dependent_module # module_path
              THEN module_incoming(
                     group_append(groups, dependent_module,
                                  [from_component |-> dependent_id,
                                   to_component   |-> comp_id]),
                     rest, comp_id, module_path, comp_map)
              ELSE module_incoming(groups, rest, comp_id, module_path, comp_map)
         ELSE module_incoming(groups, rest, comp_id, module_path, comp_map)

\* for comp_id in components; acc = [internal, external, dependents]
RECURSIVE module_edges(_, _, _, _)
module_edges(acc, components, module_path, comp_map) ==
    IF components = <<>> THEN acc
    ELSE
      LET comp_id == Head(components)
      IN IF Len(comp_map) = 0 \/ ~Has(comp_map, comp_id)
         THEN module_edges(acc, Tail(components), module_path, comp_map)
         ELSE
           LET comp_info == Lookup(comp_map, comp_id)
               out == module_outgoing([internal |-> acc.internal,
                                       external |-> acc.external],
                                      comp_info.depends_on, comp_id,
                                      module_path, comp_map)
               inc == module_incoming(acc.dependents, comp_info.depended_by,
                                      comp_id, module_path, comp_map)
           IN module_edges([internal   |-> out.internal,
                            external   |-> out.external,
                            dependents |-> inc],
                           Tail(components), module_path, comp_map)

\* sum(len(d["relationships"]) for d in external_deps)
RECURSIVE relationship_count(_)
relationship_count(groups) ==
    IF groups = <<>> THEN 0
    ELSE Len(Head(groups).relationships) + relationship_count(Tail(groups))

\* a score that calls a module without edges fully cohesive
cohesion_score_empty_is_one(internal_edge_count, total_edges) ==
    IF total_edges > 0
    THEN [num |-> internal_edge_count, den |-> total_edges]
    ELSE [num |-> 1, den |-> 1]

\* internal_edge_count / total_edges if total_edges > 0 else 0.0, kept as
\* the exact fraction num / den (0.0 is 0 / 1)
cohesion_score(internal_edge_count, total_edges) ==
    IF total_edges > 0
    THEN [num |-> internal_edge_count, den |-> total_edges]
    ELSE [num |-> 0, den |-> 1]

\* a complexity record whose total leaves out the internal edges
complexity_of_external_total(components, internal_deps, external_deps) ==
    LET external_edge_count == relationship_count(external_deps)
        internal_edge_count == Len(internal_deps)
        total_edges         == external_edge_count
    IN [component_count     |-> Len(components),
        internal_edge_count |-> internal_edge_count,
        external_edge_count |-> external_edge_count,
        cohesion_score      |-> cohesion_score(internal_edge_count, total_edges)]

\* the complexity record
complexity_of(components, internal_deps, external_deps) ==
    LET external_edge_count == relationship_count(external_deps)
        internal_edge_count == Len(internal_deps)
        total_edges         == internal_edge_count + external_edge_count
    IN [component_count     |-> Len(components),
        internal_edge_count |-> internal_edge_count,
        external_edge_count |-> external_edge_count,
        cohesion_score      |-> cohesion_score(internal_edge_count, total_edges)]

analyze_module_dependencies(pt, comp_map, module_path) ==
    IF pt = Unset \/ ~Has(pt.modules, module_path)
    THEN [error |-> "not found"]
    ELSE
      LET module_info == Lookup(pt.modules, module_path)
          components  == module_info.components
          edges == module_edges([internal |-> <<>>, external |-> <<>>,
                                 dependents |-> <<>>],
                                components, module_path, comp_map)
          external_deps ==
              [i \in 1..Len(edges.external) |->
                  [target_module |-> edges.external[i][1],
                   relationships |-> edges.external[i][2]]]
          external_dependents ==
              [i \in 1..Len(edges.dependents) |->
                  [source_module |-> edges.dependents[i][1],
                   relationships |-> edges.dependents[i][2]]]
      IN [module                |-> module_path,
          components            |-> components,
          internal_dependencies |-> edges.internal,
          external_dependencies |-> external_deps,
          external_dependents   |-> external_dependents,
          complexity            |-> complexity_of(components, edges.internal,
                                                  external_deps)]

(***************************************************************************)
(* infer_component_purpose                                                 *)
(***************************************************************************)
\* the characters of the strings that str.lower and "in" are applied to
Chars(str) ==
    CASE str = "X" -> <<"X">>
      [] str = "Y" -> <<"Y">>
      [] str = "Z" -> <<"Z">>
      [] str = "UserManager" -> <<"U", "s", "e", "r", "M", "a", "n", "a", "g", "e", "r">>
      [] str = "ServiceManager" -> <<"S", "e", "r", "v", "i", "c", "e", "M", "a", "n", "a", "g", "e", "r">>
      [] str = "ModelBuilder" -> <<"M", "o", "d", "e", "l", "B", "u", "i", "l", "d", "e", "r">>
      [] str = "ConfigParser" -> <<"C", "o", "n", "f", "i", "g", "P", "a", "r", "s", "e", "r">>
      [] str = "EventHandler" -> <<"E", "v", "e", "n", "t", "H", "a", "n", "d", "l", "e", "r">>
      [] str = "DTO" -> <<"D", "T", "O">>
      [] str = "Widget" -> <<"W", "i", "d", "g", "e", "t">>
      [] str = "manager" -> <<"m", "a", "n", "a", "g", "e", "r">>
      [] str = "service" -> <<"s", "e", "r", "v", "i", "c", "e">>
      [] str = "generator" -> <<"g", "e", "n", "e", "r", "a", "t", "o", "r">>
      [] str = "builder" -> <<"b", "u", "i", "l", "d", "e", "r">>
      [] str = "analyzer" -> <<"a", "n", "a", "l", "y", "z", "e", "r">>
      [] str = "parser" -> <<"p", "a", "r", "s", "e", "r">>
      [] str = "handler" -> <<"h", "a", "n", "d", "l", "e", "r">>
      [] str = "processor" -> <<"p", "r", "o", "c", "e", "s", "s", "o", "r">>
      [] str = "adapter" -> <<"a", "d", "a", "p", "t", "e", "r">>
      [] str = "wrapper" -> <<"w", "r", "a", "p", "p", "e", "r">>
      [] str = "model" -> <<"m", "o", "d", "e", "l">>
      [] str = "entity" -> <<"e", "n", "t", "i", "t", "y">>
      [] str = "dto" -> <<"d", "t", "o">>
      [] str = "util" -> <<"u", "t", "i", "l">>
      [] str = "helper" -> <<"h", "e", "l", "p", "e", "r">>
      [] str = "config" -> <<"c", "o", "n", "f", "i", "g">>
      [] str = "settings" -> <<"s", "e", "t", "t", "i", "n", "g", "s">>

UpperCase == <<"A", "B", "C", "D", "E", "F", "G", "H", "I", "J", "K", "L", "M", "N", "O", "P", "Q", "R", "S", "T", "U", "V", "W", "X", "Y", "Z">>

LowerCase == <<"a", "b", "c", "d", "e", "f", "g", "h", "i", "j", "k", "l", "m", "n", "o", "p", "q", "r", "s", "t", "u", "v", "w", "x", "y", "z">>

\* a name that is matched as it is spelled
lower_unchanged(cs) ==
    cs

\* str.lower, on characters
lower(cs) ==
    [i \in 1..Len(cs) |->
        IF \E k \in 1..Len(UpperCase) : UpperCase[k] = cs[i]
        THEN LowerCase[CHOOSE k \in 1..Len(UpperCase) : UpperCase[k] = cs[i]]
        ELSE cs[i]]

\* pattern in name_lower
contains(hay, needle) ==
    \E i \in 0..(Len(hay) - Len(needle)) :
        SubSeq(hay, i + 1, i + Len(needle)) = needle

\* a float literal with one decimal, as the exact fraction n / 10
Tenths(n) == [num |-> n, den |-> 10]

\* the entries of role_patterns in the order of the dict literal
role_patterns ==
    << [pattern |-> "manager", role |-> "manager", confidence |-> Tenths(8),
        desc |-> "manages resources or lifecycle"],
       [pattern |-> "service", role |-> "service", confidence |-> Tenths(8),
        desc |-> "provides business logic"],
       [pattern |-> "generator", role |-> "generator", confidence |-> Tenths(8),
        desc |-> "object creation or construction"],
       [pattern |-> "builder", role |-> "generator", confidence |-> Tenths(8),
        desc |-> "object creation or construction"],
       [pattern |-> "analyzer", role |-> "analyzer", confidence |-> Tenths(8),
        desc |-> "data analysis or transformation"],
       [pattern |-> "parser", role |-> "analyzer", confidence |-> Tenths(8),
        desc |-> "data analysis or transformation"],
       [pattern |-> "handler", role |-> "processor", confidence |-> Tenths(7),
        desc |-> "event handling or data processing"],
       [pattern |-> "processor", role |-> "processor", confidence |-> Tenths(7),
        desc |-> "event handling or data processing"],
       [pattern |-> "adapter", role |-> "adapter", confidence |-> Tenths(8),
        desc |-> "interface adaptation or wrapping"],
       [pattern |-> "wrapper", role |-> "adapter", confidence |-> Tenths(8),
        desc |-> "interface adaptation or wrapping"],
       [pattern |-> "model", role |-> "model", confidence |-> Tenths(7),
        desc |-> "data structure or entity"],
       [pattern |-> "entity", role |-> "model", confidence |-> Tenths(7),
        desc |-> "data structure or entity"],
       [pattern |-> "dto", role |-> "model", confidence |-> Tenths(7),
        desc |-> "data structure or entity"],
       [pattern |-> "util", role |-> "utility", confidence |-> Tenths(7),
        desc |-> "helper functions"],
       [pattern |-> "helper", role |-> "utility", confidence |-> Tenths(7),
        desc |-> "helper functions"],
       [pattern |-> "config", role |-> "configuration", confidence |-> Tenths(8),
        desc |-> "configuration management"],
       [pattern |-> "settings", role |-> "configuration", confidence |-> Tenths(8),
        desc |-> "configuration management"] >>

\* the loop over role_patterns with its break; acc = [role, confidence, reasoning]
RECURSIVE match_name(_, _, _)
match_name(acc, patterns, name_lower) ==
    IF patterns = <<>> THEN acc
    ELSE
      LET entry == Head(patterns)
      IN IF contains(name_lower, Chars(entry.pattern))
         THEN [role       |-> entry.role,
               confidence |-> entry.confidence,
               reasoning  |-> Append(acc.reasoning,
                                <<"Name contains", entry.pattern, entry.desc>>)]
         ELSE match_name(acc, Tail(patterns), name_lower)

\* an adjustment that takes ten dependencies for many
by_dependencies_from_ten(acc, dep_count) ==
    IF dep_count = 0
    THEN [role       |-> IF acc.role = "unknown" THEN "model" ELSE acc.role,
          confidence |-> IF acc.role = "unknown" THEN Tenths(6) ELSE acc.confidence,
          reasoning  |-> Append(acc.reasoning, <<"No dependencies">>)]
    ELSE IF dep_count >= 10
    THEN [role       |-> IF acc.role = "unknown" THEN "controller" ELSE acc.role,
          confidence |-> IF acc.role = "unknown" THEN Tenths(6) ELSE acc.confidence,
          reasoning  |-> Append(acc.reasoning, <<"Many dependencies", dep_count>>)]
    ELSE acc

\* an adjustment that lets the dependency count override a matched name
by_dependencies_overriding(acc, dep_count) ==
    IF dep_count = 0
    THEN [role       |-> "model",
          confidence |-> Tenths(6),
          reasoning  |-> Append(acc.reasoning, <<"No dependencies">>)]
    ELSE IF dep_count > 10
    THEN [role       |-> "controller",
          confidence |-> Tenths(6),
          reasoning  |-> Append(acc.reasoning, <<"Many dependencies", dep_count>>)]
    ELSE acc

\* the adjustment by dep_count
by_dependencies(acc, dep_count) ==
    IF dep_count = 0
    THEN [role       |-> IF acc.role = "unknown" THEN "model" ELSE acc.role,
          confidence |-> IF acc.role = "unknown" THEN Tenths(6) ELSE acc.confidence,
          reasoning  |-> Append(acc.reasoning, <<"No dependencies">>)]
    ELSE IF dep_count > 10
    THEN [role       |-> IF acc.role = "unknown" THEN "controller" ELSE acc.role,
          confidence |-> IF acc.role = "unknown" THEN Tenths(6) ELSE acc.confidence,
          reasoning  |-> Append(acc.reasoning, <<"Many dependencies", dep_count>>)]
    ELSE acc

\* a note that takes ten dependents for many
by_dependents_from_ten(acc, dependent_count) ==
    IF dependent_count = 0
    THEN [acc EXCEPT !.reasoning = Append(@, <<"No dependents">>)]
    ELSE IF dependent_count >= 10
    THEN [acc EXCEPT !.reasoning = Append(@, <<"Many dependents", dependent_count>>)]
    ELSE acc

\* the note by dependent_count
by_dependents(acc, dependent_count) ==
    IF dependent_count = 0
    THEN [acc EXCEPT !.reasoning = Append(@, <<"No dependents">>)]
    ELSE IF dependent_count > 10
    THEN [acc EXCEPT !.reasoning = Append(@, <<"Many dependents", dependent_count>>)]
    ELSE acc

role_descriptions ==
    << <<"manager", "manages lifecycle and resources">>,
       <<"service", "provides business logic and operations">>,
       <<"generator", "creates or constructs objects/data">>,
       <<"analyzer", "analyzes or transforms data">>,
       <<"processor", "processes data or handles events">>,
       <<"adapter", "adapts or wraps external interfaces">>,
       <<"model", "represents data structure or entity">>,
       <<"utility", "provides helper functions">>,
       <<"configuration", "manages configuration settings">>,
       <<"controller", "orchestrates operations">> >>

\* _generate_purpose_description: the f-string as its pieces
generate_purpose_description(name, role, comp_type, dep_count, dependent_count) ==
    IF Has(role_descriptions, role)
    THEN <<name, Lookup(role_descriptions, role)>>
    ELSE <<name, "(", comp_type, ")">>

infer_component_purpose(comp_map, component_id) ==
    IF Len(comp_map) = 0 \/ ~Has(comp_map, component_id)
    THEN [error |-> "not found"]
    ELSE
      LET comp_info       == Lookup(comp_map, component_id)
          name            == comp_info.name
          comp_type       == comp_info.component_type
          dep_count       == comp_info.dependency_count
          dependent_count == comp_info.dependent_count
          name_lower      == lower(Chars(name))
          named    == match_name([role |-> "unknown", confidence |-> Tenths(5),
                                  reasoning |-> <<>>],
                                 role_patterns, name_lower)
          inferred == by_dependents(by_dependencies(named, dep_count),
                                    dependent_count)
      IN [primary_purpose |-> generate_purpose_description(
                                 name, inferred.role, comp_type, dep_count,
                                 dependent_count),
          role            |-> inferred.role,
          confidence      |-> inferred.confidence,
          reasoning       |-> inferred.reasoning,
          metrics         |-> [dependencies |-> dep_count,
                               dependents   |-> dependent_count,
                               type         |-> comp_type]]

(***************************************************************************)
(* generate_analysis_report                                                *)
(***************************************************************************)
\* the loop that fills report["components"]
RECURSIVE report_components(_, _, _)
report_components(acc, components, comp_map) ==
    IF components = <<>> THEN acc
    ELSE
      LET comp_id == Head(components)
      IN IF Len(comp_map) = 0 \/ ~Has(comp_map, comp_id)
         THEN report_components(acc, Tail(components), comp_map)
         ELSE report_components(
                Put(acc, comp_id,
                    [info         |-> Lookup(comp_map, comp_id),
                     dependencies |-> analyze_dependencies(comp_map, comp_id),
                     purpose      |-> infer_component_purpose(comp_map, comp_id)]),
                Tail(components), comp_map)

\* a report that answers an unknown module with an empty report
report_not_found_as_empty(module_path) ==
    [module |-> module_path, components |-> <<>>]

\* return {"error": f"Module {module_path} not found"}
report_not_found(module_path) ==
    [error |-> "not found"]

generate_analysis_report(pt, comp_map, module_path) ==
    IF pt = Unset \/ ~Has(pt.modules, module_path)
    THEN report_not_found(module_path)
    ELSE
      LET module_info     == Lookup(pt.modules, module_path)
          module_analysis == analyze_module_dependencies(pt, comp_map, module_path)
      IN [module       |-> module_path,
          summary      |-> [path            |-> module_path,
                            component_count |-> Len(module_info.components),
                            is_leaf         |-> module_info.is_leaf,
                            level           |-> module_info.level,
                            has_children    |-> Len(module_info.children) > 0],
          dependencies |-> Get(module_analysis, "external_dependencies", <<>>),
          dependents   |-> Get(module_analysis, "external_dependents", <<>>),
          complexity   |-> Get(module_analysis, "complexity", <<>>),
          components   |-> report_components(<<>>, module_info.components, comp_map)]

(***************************************************************************)
(* get_repository_summary                                                  *)
(***************************************************************************)
\* a summary that reports the number of root modules as the leaf count
get_repository_summary_counting_roots(pt, comp_map) ==
    IF pt = Unset \/ Len(comp_map) = 0
    THEN [ret |-> [error |-> "Data not parsed"]]
    ELSE IF pt.modules = <<>>
    THEN [raised |-> "ValueError"]
    ELSE [ret |->
           [total_modules   |-> Len(pt.modules),
            leaf_modules    |-> Len(pt.root_modules),
            parent_modules  |-> Len(pt.parent_modules),
            root_modules    |-> Len(pt.root_modules),
            total_components |-> Len(comp_map),
            max_depth       |-> Max({pt.modules[i][2].level :
                                       i \in 1..Len(pt.modules)}),
            processing_order_levels |-> Len(get_processing_order(pt).ret)]]

\* max() of an empty sequence raises ValueError
get_repository_summary(pt, comp_map) ==
    IF pt = Unset \/ Len(comp_map) = 0
    THEN [ret |-> [error |-> "Data not parsed"]]
    ELSE IF pt.modules = <<>>
    THEN [raised |-> "ValueError"]
    ELSE [ret |->
           [total_modules   |-> Len(pt.modules),
            leaf_modules    |-> Len(pt.leaf_modules),
            parent_modules  |-> Len(pt.parent_modules),
            root_modules    |-> Len(pt.root_modules),
            total_components |-> Len(comp_map),
            max_depth       |-> Max({pt.modules[i][2].level :
                                       i \in 1..Len(pt.modules)}),
            processing_order_levels |-> Len(get_processing_order(pt).ret)]]

(***************************************************************************)
(* GatomiaOrchestrator (orchestrator.py)                                   *)
(*                                                                         *)
(* A Path below output_dir is the sequence of its parts; a markdown        *)
(* document is the record of what it states.                               *)
(***************************************************************************)
\* module_path.split("/")
split_path(module_path) ==
    CASE module_path = "a/b" -> <<"a", "b">>
      [] OTHER               -> <<module_path>>

\* output_dir / "modules" / part / ... / "README.md"
get_module_doc_path(module_path) ==
    <<"modules">> \o split_path(module_path) \o <<"README.md">>

\* the number of leading parts that two paths share
RECURSIVE common_parts(_, _)
common_parts(p, q) ==
    IF p = <<>> \/ q = <<>> \/ Head(p) # Head(q) THEN 0
    ELSE 1 + common_parts(Tail(p), Tail(q))

\* os.path.relpath(to_path, from_path.parent): one ".." per part of the
\* parent below the shared parts, then the rest of to_path.  Both paths are
\* below output_dir, so relpath raises no ValueError.
get_relative_path(from_path, to_path) ==
    LET start == SubSeq(from_path, 1, Len(from_path) - 1)
        k     == common_parts(start, to_path)
        rel   == [i \in 1..(Len(start) - k) |-> ".."]
                   \o SubSeq(to_path, k + 1, Len(to_path))
    IN IF rel = <<>> THEN <<".">> ELSE rel

\* list(module_info["children"].keys())
get_child_modules(pt, module_path) ==
    IF pt = Unset THEN <<>>
    ELSE Keys(Lookup(pt.modules, module_path).children)

\* with open(path, "w") as f: f.write(content)
save_documentation(fs, path, content) == Put(fs, path, content)

\* with open(path) as f: return f.read()
load_documentation(fs, path) == Lookup(fs, path)

\* the title, the overview, one section per component, the two module lists
format_leaf_module_markdown(report) ==
    [format          |-> "leaf",
     module          |-> report.module,
     component_count |-> report.summary.component_count,
     cohesion_score  |-> Get(Get(report, "complexity", <<>>), "cohesion_score", 0),
     components      |-> Keys(Get(report, "components", <<>>)),
     dependencies    |-> [i \in 1..Len(Get(report, "dependencies", <<>>)) |->
                            report.dependencies[i].target_module],
     dependents      |-> [i \in 1..Len(Get(report, "dependents", <<>>)) |->
                            report.dependents[i].source_module]]

\* returns generated_docs and the files after the leaf document is written
generate_leaf_module_doc(pt, comp_map, docs, fs, module_path) ==
    LET report      == generate_analysis_report(pt, comp_map, module_path)
        markdown    == format_leaf_module_markdown(report)
        output_path == get_module_doc_path(module_path)
    IN [files          |-> save_documentation(fs, output_path, markdown),
        generated_docs |-> Put(docs, module_path, output_path)]

\* child_docs: the documents of the children that have been generated
RECURSIVE load_child_docs(_, _, _, _)
load_child_docs(child_docs, children, docs, fs) ==
    IF children = <<>> THEN child_docs
    ELSE
      LET child_path == Head(children)
      IN IF Has(docs, child_path)
         THEN load_child_docs(
                Put(child_docs, child_path,
                    load_documentation(fs, Lookup(docs, child_path))),
                Tail(children), docs, fs)
         ELSE load_child_docs(child_docs, Tail(children), docs, fs)

\* the title, the number of submodules, the hierarchy diagram, and one
\* section per child with a loaded document, linked to
\* self.generated_docs[child_path]: KeyError when that child has no entry
format_parent_module_markdown(pt, docs, module_path, module_info, child_docs) ==
    LET children == get_child_modules(pt, module_path)
        listed   == SelectSeq(children,
                              LAMBDA child_path : Has(child_docs, child_path))
    IN IF \E i \in 1..Len(listed) : ~Has(docs, listed[i])
       THEN [raised |-> "KeyError"]
       ELSE [ret |->
              [format          |-> "parent",
               module          |-> module_path,
               submodule_count |-> Len(module_info.children),
               hierarchy       |-> children,
               submodules      |-> listed,
               links           |-> [i \in 1..Len(listed) |->
                                      get_relative_path(
                                          get_module_doc_path(module_path),
                                          Lookup(docs, listed[i]))]]]

\* returns generated_docs and the files after the parent document is
\* written; nothing is written when parsed_tree is falsy or the formatting
\* raises
generate_parent_module_doc(pt, docs, fs, module_path) ==
    IF pt = Unset THEN [files |-> fs, generated_docs |-> docs]
    ELSE
      LET module_info == Lookup(pt.modules, module_path)
          child_docs  == load_child_docs(<<>>, get_child_modules(pt, module_path),
                                         docs, fs)
          markdown    == format_parent_module_markdown(pt, docs, module_path,
                                                       module_info, child_docs)
          output_path == get_module_doc_path(module_path)
      IN IF "raised" \in DOMAIN markdown
         THEN [raised |-> markdown.raised, files |-> fs, generated_docs |-> docs]
         ELSE [files          |-> save_documentation(fs, output_path, markdown.ret),
               generated_docs |-> Put(docs, module_path, output_path)]

\* module_summaries: one entry per root module that has a document
RECURSIVE module_summaries_of(_, _, _, _)
module_summaries_of(module_summaries, root_modules, docs, fs) ==
    IF root_modules = <<>> THEN module_summaries
    ELSE
      LET module_path == Head(root_modules)
      IN IF Has(docs, module_path)
         THEN module_summaries_of(
                Put(module_summaries, module_path,
                    load_documentation(fs, Lookup(docs, module_path)).format),
                Tail(root_modules), docs, fs)
         ELSE module_summaries_of(module_summaries, Tail(root_modules), docs, fs)

\* the counts of the summary (KeyError on the error record), the diagram of
\* the root modules, one section per summarised module that is in
\* generated_docs, and the root modules that are in generated_docs; the root
\* modules are read only when parsed_tree is truthy
format_repository_overview_markdown(pt, docs, summary, module_summaries) ==
    IF "total_modules" \notin DOMAIN summary
    THEN [raised |-> "KeyError"]
    ELSE
      LET root_modules == IF pt # Unset THEN pt.root_modules ELSE <<>>
          listed  == SelectSeq(Keys(module_summaries),
                               LAMBDA module_path : Has(docs, module_path))
          started == SelectSeq(root_modules,
                               LAMBDA module_path : Has(docs, module_path))
          link(module_path) ==
              get_relative_path(<<"README.md">>, Lookup(docs, module_path))
      IN [ret |->
           [format           |-> "overview",
            total_modules    |-> summary.total_modules,
            total_components |-> summary.total_components,
            max_depth        |-> summary.max_depth,
            diagram          |-> root_modules,
            modules          |-> listed,
            module_links     |-> [i \in 1..Len(listed) |-> link(listed[i])],
            getting_started  |-> started,
            getting_started_links |->
                [i \in 1..Len(started) |-> link(started[i])]]]

\* returns generated_docs and the files after README.md is written; nothing
\* is written when parsed_tree is falsy or a call raises.  The summary is
\* computed before the guard.
generate_repository_overview(pt, comp_map, docs, fs) ==
    LET summary == get_repository_summary(pt, comp_map)
    IN IF "raised" \in DOMAIN summary
       THEN [raised |-> summary.raised, files |-> fs, generated_docs |-> docs]
       ELSE IF pt = Unset
       THEN [files |-> fs, generated_docs |-> docs]
       ELSE
         LET module_summaries == module_summaries_of(<<>>, pt.root_modules,
                                                     docs, fs)
             markdown == format_repository_overview_markdown(
                             pt, docs, summary.ret, module_summaries)
             output_path == <<"README.md">>
         IN IF "raised" \in DOMAIN markdown
            THEN [raised |-> markdown.raised, files |-> fs,
                  generated_docs |-> docs]
            ELSE [files |-> save_documentation(fs, output_path, markdown.ret),
                  generated_docs |-> Put(docs, "_repository_overview",
                                         output_path)]

\* key.startswith("_"), for the keys of generated_docs
starts_with_underscore(key) == key = "_repository_overview"

\* the files after INDEX.md is written: one line per module document, in the
\* sorted order of the keys, indented by the level of the module; nothing is
\* written when parsed_tree is falsy
generate_navigation(pt, docs, fs) ==
    IF pt = Unset THEN fs
    ELSE
      LET listed == SortedPaths({k \in KeySet(docs) : ~starts_with_underscore(k)})
          nav_content ==
              [format  |-> "index",
               entries |-> [i \in 1..Len(listed) |->
                              [module |-> listed[i],
                               indent |-> Lookup(pt.modules, listed[i]).level,
                               link   |-> get_relative_path(
                                              <<"INDEX.md">>,
                                              Lookup(docs, listed[i]))]]]
      IN save_documentation(fs, <<"INDEX.md">>, nav_content)

\* a parent step that walks the upper levels from the roots down
parent_batches_top_down(order) ==
    [i \in 1..(Len(order) - 1) |-> order[Len(order) + 1 - i]]

\* processing_order[1:], the batches of step 4
parent_batches(order) == Tail(order)

\* a leaf step that stops after the first module of its batch
leaf_batch_first_only(order) == <<order[1][1]>>

\* processing_order[0], the batch of step 3
leaf_batch(order) == order[1]

(***************************************************************************)
(* DiagramGenerator (diagram_generator.py)                                 *)
(*                                                                         *)
(* A line of a diagram is the record of its pieces, a node id the tuple of *)
(* the pieces of its f-string.                                             *)
(***************************************************************************)
\* f"M{depth}_{idx}"
node_id(depth, idx) == <<"M", depth, "_", idx>>

\* traverse: the loop over enumerate(modules.items()) from position idx on;
\* parent_id is Unset for None
RECURSIVE traverse_modules(_, _, _, _, _, _)
traverse_modules(lines, modules, idx, parent_id, depth, max_depth) ==
    IF depth >= max_depth \/ idx >= Len(modules) THEN lines
    ELSE
      LET module_path == modules[idx + 1][1]
          module_data == modules[idx + 1][2]
          id          == node_id(depth, idx)
          declared    == Append(lines, [line  |-> "node", id |-> id,
                                        label |-> module_path])
          linked      == IF parent_id # Unset
                         THEN Append(declared, [line |-> "edge",
                                                from |-> parent_id, to |-> id])
                         ELSE declared
          children    == Get(module_data, "children", <<>>)
          below       == IF children # <<>>
                         THEN traverse_modules(linked, children, 0, id,
                                               depth + 1, max_depth)
                         ELSE linked
      IN traverse_modules(below, modules, idx + 1, parent_id, depth, max_depth)

\* the lines of the repository diagram
generate_repository_architecture(tree, max_depth) ==
    traverse_modules(<<>>, tree, 0, Unset, 0, max_depth)

\* a module record without a field, the JSON object {}
EmptyModule == [field \in {} |-> <<>>]

\* truthiness of dict | None, what search returned: None and {} are falsy
TruthyModule(returned) == returned.found /\ DOMAIN returned.data # {}

\* search: a module keyed module_path is returned as it is met, a module
\* before its children; what the search below a module returns is passed on
\* only when it is truthy. found is FALSE for None
RECURSIVE find_module(_, _)
find_module(modules, module_path) ==
    IF modules = <<>> THEN [found |-> FALSE]
    ELSE IF Head(modules)[1] = module_path
    THEN [found |-> TRUE, data |-> Head(modules)[2]]
    ELSE
      LET children == Get(Head(modules)[2], "children", <<>>)
          below    == IF children # <<>> THEN find_module(children, module_path)
                      ELSE [found |-> FALSE]
      IN IF TruthyModule(below) THEN below
         ELSE find_module(Tail(modules), module_path)

\* the lines of the diagram of one module: the module and its components
generate_module_architecture(tree, module_path, max_depth) ==
    LET module == find_module(tree, module_path)
    IN IF ~TruthyModule(module)
       THEN <<[line |-> "error", label |-> module_path]>>
       ELSE
         LET components == Get(module.data, "components", <<>>)
             comp_lines(idx) ==
                 <<[line |-> "node", id |-> <<"C", idx>>,
                    label |-> LastSegment(components[idx + 1])],
                   [line |-> "edge", from |-> <<"Root">>, to |-> <<"C", idx>>],
                   [line |-> "style", id |-> <<"C", idx>>]>>
             all_lines[n \in 0..Len(components)] ==
                 IF n = 0 THEN <<>> ELSE all_lines[n - 1] \o comp_lines(n - 1)
         IN <<[line |-> "node", id |-> <<"Root">>, label |-> module_path]>>
              \o all_lines[Len(components)]

\* the lines between "graph TB" and the closing fence
generate_architecture_diagram(tree, module_path, max_depth) ==
    IF Truthy(module_path)
    THEN generate_module_architecture(tree, module_path, max_depth)
    ELSE generate_repository_architecture(tree, max_depth)

(***************************************************************************)
(* Inputs: module trees                                                    *)
(***************************************************************************)
RECURSIVE TreeSize(_)
TreeSize(d) ==
    IF d = <<>> THEN 0
    ELSE 1 + TreeSize(Head(d)[2].children) + TreeSize(Tail(d))

\* module trees of at most n nodes and depth at most depth; keys are unique
\* within one dict, as JSON parsing guarantees, but not across dicts
RECURSIVE Forests(_, _, _)
Forests(n, depth, compLists) ==
    IF n = 0 \/ depth = 0 THEN {<<>>}
    ELSE {<<>>} \cup UNION {
           UNION {
             { <<<<pc2[1], [components |-> pc2[2], children |-> kids]>>>> \o rest :
                 rest \in {r \in Forests(n - 1 - TreeSize(kids), depth, compLists) :
                             ~Has(r, pc2[1])} }
             : kids \in Forests(n - 1, depth - 1, compLists) }
           : pc2 \in Paths \X compLists }

\* trees of every shape; each module lists no component or "a.X"
TreeInputs == Forests(MaxNodes, MaxDepth, {<<>>, <<"a.X">>})

\* JSON objects that leave out optional fields
DegenerateTrees ==
    { << <<"a", [components |-> <<"a.X">>]>> >>,
      << <<"a", [children |-> << <<"a/b", [components |-> <<"a.b.Y">>]>> >>]>> >> }

\* the components of CompOrder that f assigns to module p, in CompOrder's order
Assigned(f, p) == SelectSeq(CompOrder, LAMBDA c : f[c] = p)

\* the tree a -> a/b, b with every assignment of the components to
\* one module or to none
AssignedTrees ==
    { << <<"a", [components |-> Assigned(f, "a"),
                 children   |-> << <<"a/b", [components |-> Assigned(f, "a/b"),
                                            children   |-> <<>>]>> >>]>>,
         <<"b", [components |-> Assigned(f, "b"), children |-> <<>>]>> >>
      : f \in [CompIds -> Paths \cup {None}] }

\* the same tree with a component listed twice by one module, and with a
\* component listed by two modules
ListedTwiceTrees ==
    { << <<"a", [components |-> <<"a.X", "a.X">>,
                 children   |-> << <<"a/b", [components |-> <<"a.b.Y">>,
                                            children   |-> <<>>]>> >>]>>,
         <<"b", [components |-> <<"Z">>, children |-> <<>>]>> >>,
      << <<"a", [components |-> <<"a.X">>,
                 children   |-> << <<"a/b", [components |-> <<"a.X", "a.b.Y">>,
                                            children   |-> <<>>]>> >>]>>,
         <<"b", [components |-> <<"Z">>, children |-> <<>>]>> >> }

(***************************************************************************)
(* Inputs: dependency graphs                                               *)
(***************************************************************************)
\* depends_on lists of at most n entries; targets may be absent from the graph
DepLists(n) == UNION {[1..k -> CompIds] : k \in 0..n}

\* graphs over the given keys with at most budget edges in total
RECURSIVE GraphsOver(_, _)
GraphsOver(keys, budget) ==
    IF keys = <<>> THEN {<<>>}
    ELSE UNION {
           { <<<<Head(keys), [depends_on |-> dl]>>>> \o rest :
               rest \in GraphsOver(Tail(keys), budget - Len(dl)) }
           : dl \in DepLists(budget) }

\* the subsequences of CompOrder
KeyLists == {SelectSeq(CompOrder, LAMBDA c : c \in S) : S \in SUBSET CompIds}

GraphInputs == UNION {GraphsOver(ks, MaxEdges) : ks \in KeyLists}

\* the graph of the documented scenario, and one with a missing depends_on
ScenarioGraphs ==
    { <<>>,
      << <<"a.X", [depends_on |-> <<"a.b.Y">>]>>, <<"a.b.Y", [depends_on |-> <<>>]>> >>,
      << <<"a.X", [name |-> "UserManager"]>> >> }

\* component names with one fragment of the role table, with two in either
\* order, in upper case, and with none
Names ==
    {"UserManager", "ServiceManager", "ModelBuilder", "ConfigParser",
     "EventHandler", "DTO", "Widget"}

\* a named component with k dependencies and m dependents
PurposeGraphs ==
    { << <<"a.X",   [name |-> n, depends_on |-> [i \in 1..k |-> "a.b.Y"]]>>,
         <<"a.b.Y", [depends_on |-> [i \in 1..m |-> "a.X"]]>> >>
      : n \in Names, k \in 0..MaxFanOut, m \in 0..MaxFanOut }

\* the tree of the two components of PurposeGraphs
PurposeTree ==
    << <<"a", [components |-> <<"a.X">>,
               children   |-> << <<"a/b", [components |-> <<"a.b.Y">>,
                                          children   |-> <<>>]>> >>]>> >>

(***************************************************************************)
(* Concurrent readers of one analyzer                                      *)
(***************************************************************************)
\* two callers are enough for one call to run inside another
Readers == {1, 2}

\* a reader between two calls
Idle == [at |-> "idle"]

\* the six queries with their arguments
Calls ==
    ({"get_processing_order", "get_repository_summary"} \X {None})
        \cup ({"analyze_dependencies", "infer_component_purpose"} \X CompIds)
        \cup ({"analyze_module_dependencies", "generate_analysis_report"}
                 \X Paths)

\* what the body of query op returns, or raises, for arg when it reads the
\* tree pt and the map comp_map
query(op, arg, pt, comp_map) ==
    CASE op = "get_processing_order" ->
           get_processing_order(pt)
      [] op = "analyze_dependencies" ->
           [ret |-> analyze_dependencies(comp_map, arg)]
      [] op = "analyze_module_dependencies" ->
           [ret |-> analyze_module_dependencies(pt, comp_map, arg)]
      [] op = "infer_component_purpose" ->
           [ret |-> infer_component_purpose(comp_map, arg)]
      [] op = "generate_analysis_report" ->
           [ret |-> generate_analysis_report(pt, comp_map, arg)]
      [] op = "get_repository_summary" ->
           get_repository_summary(pt, comp_map)

(***************************************************************************)
(* The analyzer: construction, then queries                                *)
(***************************************************************************)
Constructed ==
    /\ parsed_tree = Unset
    /\ component_map = Unset
    /\ reverse_deps = Unset
    /\ pc = "parse"
    /\ result = Unset
    /\ generated_docs = <<>>
    /\ files = <<>>
    /\ step = "created"
    /\ raised = None
    /\ processing_order = <<>>
    /\ level_idx = 0
    /\ module_idx = 0
    /\ readers = [r \in Readers |-> Idle]

\* every tree shape with few graphs, and one tree with every named component
Init ==
    /\ \/ /\ module_tree \in TreeInputs \cup DegenerateTrees
          /\ dependency_graph \in ScenarioGraphs
       \/ /\ module_tree = PurposeTree
          /\ dependency_graph \in PurposeGraphs
    /\ Constructed

\* every graph, every module assignment on one tree shape
InitDeps ==
    /\ module_tree \in AssignedTrees \cup ListedTwiceTrees
    /\ dependency_graph \in GraphInputs
    /\ Constructed

\* every tree shape, with no component, with two and with one
InitDocs ==
    /\ module_tree \in TreeInputs \cup DegenerateTrees
    /\ dependency_graph \in ScenarioGraphs
    /\ Constructed

\* two root modules with one child each
TwoFamilies ==
    << <<"a", [components |-> <<"a.X">>,
               children   |-> << <<"a/b", [components |-> <<"a.b.Y">>,
                                          children   |-> <<>>]>> >>]>>,
       <<"b", [components |-> <<"Z">>,
               children   |-> << <<"b/c", [components |-> <<>>,
                                          children   |-> <<>>]>> >>]>> >>

\* trees with a module whose JSON object is {}: the only module, a child,
\* and a child keyed like a later root
EmptyModuleTrees ==
    { << <<"a", EmptyModule>> >>,
      << <<"a", [components |-> <<>>, children |-> <<>>]>>,
         <<"b", EmptyModule>> >>,
      << <<"a", [children |-> << <<"a/b", EmptyModule>> >>]>> >>,
      << <<"a", [children |-> << <<"b", EmptyModule>> >>]>>,
         <<"b", [components |-> <<"Z">>]>> >> }

\* the trees the readers query: the documented scenario, trees with missing
\* fields, two families, the empty tree
ReaderTrees == {<<>>, PurposeTree, TwoFamilies} \cup DegenerateTrees

\* one analyzer that several readers will query
InitReaders ==
    /\ module_tree \in ReaderTrees
    /\ dependency_graph \in ScenarioGraphs
    /\ Constructed

\* the trees the diagrams are drawn from: one node more than TreeInputs
DiagramTrees ==
    Forests(MaxNodes + 1, MaxDepth, {<<"a.X", "Z">>})
        \cup {TwoFamilies} \cup EmptyModuleTrees

\* a DiagramGenerator over a module tree; it has no analyzer
InitDiagram ==
    /\ module_tree \in DiagramTrees
    /\ dependency_graph = <<>>
    /\ parsed_tree = Unset
    /\ component_map = Unset
    /\ reverse_deps = Unset
    /\ pc = "diagrams"
    /\ result = Unset
    /\ generated_docs = <<>>
    /\ files = <<>>
    /\ step = "created"
    /\ raised = None
    /\ processing_order = <<>>
    /\ level_idx = 0
    /\ module_idx = 0
    /\ readers = [r \in Readers |-> Idle]

\* _parse, step 1
ParseModuleTree ==
    /\ pc = "parse"
    /\ parsed_tree' = parse_module_tree(module_tree)
    /\ pc' = "build_component_map"
    /\ UNCHANGED <<module_tree, dependency_graph, component_map, reverse_deps, result>>
    /\ UNCHANGED orchestrator_vars
    /\ UNCHANGED reader_vars

\* a constructor that builds the component map before the tree is parsed
BuildComponentMapUnparsed ==
    /\ pc = "build_component_map"
    /\ component_map' = build_component_map(dependency_graph, Unset)
    /\ pc' = "build_reverse_dependencies"
    /\ UNCHANGED <<module_tree, dependency_graph, parsed_tree, reverse_deps, result>>
    /\ UNCHANGED orchestrator_vars
    /\ UNCHANGED reader_vars

\* _parse, step 2
BuildComponentMap ==
    /\ pc = "build_component_map"
    /\ component_map' = build_component_map(dependency_graph, parsed_tree)
    /\ pc' = "build_reverse_dependencies"
    /\ UNCHANGED <<module_tree, dependency_graph, parsed_tree, reverse_deps, result>>
    /\ UNCHANGED orchestrator_vars
    /\ UNCHANGED reader_vars

\* _parse, step 3
BuildReverseDependencies ==
    /\ pc = "build_reverse_dependencies"
    /\ component_map' = build_reverse_dependencies(component_map).component_map
    /\ reverse_deps' = build_reverse_dependencies(component_map).reverse_deps
    /\ pc' = "ready"
    /\ UNCHANGED <<module_tree, dependency_graph, parsed_tree, result>>
    /\ UNCHANGED orchestrator_vars
    /\ UNCHANGED reader_vars

GetProcessingOrder ==
    /\ pc = "ready" /\ result = Unset
    /\ parsed_tree' = ensure_parsed(parsed_tree, module_tree)
    /\ result' = [op |-> "get_processing_order", arg |-> None]
                   @@ get_processing_order(parsed_tree')
    /\ UNCHANGED <<module_tree, dependency_graph, component_map, reverse_deps, pc>>
    /\ UNCHANGED orchestrator_vars
    /\ UNCHANGED reader_vars

AnalyzeDependencies ==
    /\ pc = "ready" /\ result = Unset
    /\ \E component_id \in CompIds :
         result' = [op  |-> "analyze_dependencies", arg |-> component_id,
                    ret |-> analyze_dependencies(component_map, component_id)]
    /\ UNCHANGED <<module_tree, dependency_graph, parsed_tree, component_map,
                   reverse_deps, pc>>
    /\ UNCHANGED orchestrator_vars
    /\ UNCHANGED reader_vars

AnalyzeModuleDependencies ==
    /\ pc = "ready" /\ result = Unset
    /\ \E module_path \in Paths :
         result' = [op  |-> "analyze_module_dependencies", arg |-> module_path,
                    ret |-> analyze_module_dependencies(parsed_tree, component_map,
                                                        module_path)]
    /\ UNCHANGED <<module_tree, dependency_graph, parsed_tree, component_map,
                   reverse_deps, pc>>
    /\ UNCHANGED orchestrator_vars
    /\ UNCHANGED reader_vars

InferComponentPurpose ==
    /\ pc = "ready" /\ result = Unset
    /\ \E component_id \in CompIds :
         result' = [op  |-> "infer_component_purpose", arg |-> component_id,
                    ret |-> infer_component_purpose(component_map, component_id)]
    /\ UNCHANGED <<module_tree, dependency_graph, parsed_tree, component_map,
                   reverse_deps, pc>>
    /\ UNCHANGED orchestrator_vars
    /\ UNCHANGED reader_vars

GenerateAnalysisReport ==
    /\ pc = "ready" /\ result = Unset
    /\ \E module_path \in Paths :
         result' = [op  |-> "generate_analysis_report", arg |-> module_path,
                    ret |-> generate_analysis_report(parsed_tree, component_map,
                                                     module_path)]
    /\ UNCHANGED <<module_tree, dependency_graph, parsed_tree, component_map,
                   reverse_deps, pc>>
    /\ UNCHANGED orchestrator_vars
    /\ UNCHANGED reader_vars

GetRepositorySummary ==
    /\ pc = "ready" /\ result = Unset
    /\ result' = [op |-> "get_repository_summary", arg |-> None]
                   @@ get_repository_summary(parsed_tree, component_map)
    /\ UNCHANGED <<module_tree, dependency_graph, parsed_tree, component_map,
                   reverse_deps, pc>>
    /\ UNCHANGED orchestrator_vars
    /\ UNCHANGED reader_vars

\* the caller takes the value of the call; the next call starts afresh
TakeResult ==
    /\ pc = "ready" /\ result # Unset
    /\ result' = Unset
    /\ UNCHANGED <<module_tree, dependency_graph, parsed_tree, component_map,
                   reverse_deps, pc>>
    /\ UNCHANGED orchestrator_vars
    /\ UNCHANGED reader_vars

\* reader r calls a query: the call is entered with its argument.  On entry
\* get_processing_order parses the tree if parsed_tree is falsy.
ReaderCall(r) ==
    /\ pc = "ready" /\ readers[r].at = "idle"
    /\ \E call \in Calls :
         /\ readers' = [readers EXCEPT ![r] =
                          [at |-> "called", op |-> call[1], arg |-> call[2]]]
         /\ parsed_tree' = IF call[1] = "get_processing_order"
                           THEN ensure_parsed(parsed_tree, module_tree)
                           ELSE parsed_tree
    /\ UNCHANGED <<module_tree, dependency_graph, component_map, reverse_deps,
                   pc, result>>
    /\ UNCHANGED orchestrator_vars

\* a return that keeps each role a report inferred in the component's record
ReaderReturnCaching(r) ==
    /\ pc = "ready" /\ readers[r].at = "called"
    /\ LET answer == query(readers[r].op, readers[r].arg, parsed_tree,
                           component_map)
       IN /\ readers' = [readers EXCEPT ![r] =
                           [at |-> "returned", op |-> readers[r].op,
                            arg |-> readers[r].arg] @@ answer]
          /\ component_map' =
               IF readers[r].op = "generate_analysis_report"
                  /\ "components" \in DOMAIN answer.ret
               THEN [i \in 1..Len(component_map) |->
                       IF Has(answer.ret.components, component_map[i][1])
                       THEN <<component_map[i][1],
                              [component_map[i][2] EXCEPT !.component_type =
                                 Lookup(answer.ret.components,
                                        component_map[i][1]).purpose.role]>>
                       ELSE component_map[i]]
               ELSE component_map
    /\ UNCHANGED <<module_tree, dependency_graph, parsed_tree, reverse_deps,
                   pc, result>>
    /\ UNCHANGED orchestrator_vars

\* the body of the call of reader r runs on the structures as they are, while
\* the other reader may be inside a call of its own, and the value is
\* returned to r, or the exception raised
ReaderReturn(r) ==
    /\ pc = "ready" /\ readers[r].at = "called"
    /\ readers' = [readers EXCEPT ![r] =
                     [at |-> "returned", op |-> readers[r].op,
                      arg |-> readers[r].arg]
                       @@ query(readers[r].op, readers[r].arg, parsed_tree,
                                component_map)]
    /\ UNCHANGED <<module_tree, dependency_graph, parsed_tree, component_map,
                   reverse_deps, pc, result>>
    /\ UNCHANGED orchestrator_vars

\* reader r takes the value; its next call starts afresh
ReaderTake(r) ==
    /\ pc = "ready" /\ readers[r].at = "returned"
    /\ readers' = [readers EXCEPT ![r] = Idle]
    /\ UNCHANGED <<module_tree, dependency_graph, parsed_tree, component_map,
                   reverse_deps, pc, result>>
    /\ UNCHANGED orchestrator_vars

\* steps 1 and 2 of generate_all_documentation: the summary is printed, the
\* processing order is computed.  summary['total_modules'] raises KeyError
\* on the error record, get_repository_summary raises on an empty tree.
StartGeneration ==
    /\ pc = "ready" /\ result = Unset /\ step = "created"
    /\ LET summary == get_repository_summary(parsed_tree, component_map)
       IN IF "raised" \in DOMAIN summary
          THEN /\ step' = "raised" /\ raised' = summary.raised
               /\ UNCHANGED <<processing_order, level_idx, module_idx>>
          ELSE IF "error" \in DOMAIN summary.ret
          THEN /\ step' = "raised" /\ raised' = "KeyError"
               /\ UNCHANGED <<processing_order, level_idx, module_idx>>
          ELSE /\ processing_order' = get_processing_order(parsed_tree).ret
               /\ step' = "leaf"
               /\ level_idx' = 0
               /\ module_idx' = 1
               /\ UNCHANGED raised
    /\ UNCHANGED <<generated_docs, files>>
    /\ UNCHANGED analyzer_vars
    /\ UNCHANGED reader_vars

\* step 3, one module of processing_order[0]
GenerateLeafModuleDoc ==
    /\ step = "leaf"
    /\ LET batch       == leaf_batch(processing_order)
           module_path == batch[module_idx]
           done == generate_leaf_module_doc(parsed_tree, component_map,
                                            generated_docs, files, module_path)
       IN /\ generated_docs' = done.generated_docs
          /\ files' = done.files
          /\ IF module_idx < Len(batch)
             THEN /\ module_idx' = module_idx + 1
                  /\ UNCHANGED <<step, level_idx>>
             ELSE IF Len(processing_order) > 1
             THEN /\ step' = "parent"
                  /\ level_idx' = 1
                  /\ module_idx' = 1
             ELSE /\ step' = "overview"
                  /\ UNCHANGED <<level_idx, module_idx>>
    /\ UNCHANGED <<raised, processing_order>>
    /\ UNCHANGED analyzer_vars
    /\ UNCHANGED reader_vars

\* step 4, one module of one batch of processing_order[1:]; an exception
\* ends generate_all_documentation
GenerateParentModuleDoc ==
    /\ step = "parent"
    /\ LET batches     == parent_batches(processing_order)
           batch       == batches[level_idx]
           module_path == batch[module_idx]
           done == generate_parent_module_doc(parsed_tree, generated_docs,
                                              files, module_path)
       IN /\ generated_docs' = done.generated_docs
          /\ files' = done.files
          /\ IF "raised" \in DOMAIN done
             THEN /\ step' = "raised" /\ raised' = done.raised
                  /\ UNCHANGED <<level_idx, module_idx>>
             ELSE IF module_idx < Len(batch)
             THEN /\ module_idx' = module_idx + 1
                  /\ UNCHANGED <<step, level_idx, raised>>
             ELSE IF level_idx < Len(batches)
             THEN /\ level_idx' = level_idx + 1
                  /\ module_idx' = 1
                  /\ UNCHANGED <<step, raised>>
             ELSE /\ step' = "overview"
                  /\ UNCHANGED <<level_idx, module_idx, raised>>
    /\ UNCHANGED processing_order
    /\ UNCHANGED analyzer_vars
    /\ UNCHANGED reader_vars

\* step 5; an exception ends generate_all_documentation
GenerateRepositoryOverview ==
    /\ step = "overview"
    /\ LET done == generate_repository_overview(parsed_tree, component_map,
                                                generated_docs, files)
       IN /\ generated_docs' = done.generated_docs
          /\ files' = done.files
          /\ IF "raised" \in DOMAIN done
             THEN step' = "raised" /\ raised' = done.raised
             ELSE step' = "navigation" /\ UNCHANGED raised
    /\ UNCHANGED <<processing_order, level_idx, module_idx>>
    /\ UNCHANGED analyzer_vars
    /\ UNCHANGED reader_vars

\* step 6
GenerateNavigation ==
    /\ step = "navigation"
    /\ files' = generate_navigation(parsed_tree, generated_docs, files)
    /\ step' = "done"
    /\ UNCHANGED <<generated_docs, raised, processing_order, level_idx, module_idx>>
    /\ UNCHANGED analyzer_vars
    /\ UNCHANGED reader_vars

\* generate_architecture_diagram(module_path, max_depth)
GenerateArchitectureDiagram ==
    /\ pc = "diagrams" /\ result = Unset
    /\ \E module_path \in Paths \cup {None}, max_depth \in 1..MaxDepth :
         result' = [op        |-> "generate_architecture_diagram",
                    arg       |-> module_path,
                    max_depth |-> max_depth,
                    ret       |-> generate_architecture_diagram(
                                      module_tree, module_path, max_depth)]
    /\ UNCHANGED <<module_tree, dependency_graph, parsed_tree, component_map,
                   reverse_deps, pc>>
    /\ UNCHANGED orchestrator_vars
    /\ UNCHANGED reader_vars

\* the caller prints the diagram and asks for the next
TakeDiagram ==
    /\ pc = "diagrams" /\ result # Unset
    /\ result' = Unset
    /\ UNCHANGED <<module_tree, dependency_graph, parsed_tree, component_map,
                   reverse_deps, pc>>
    /\ UNCHANGED orchestrator_vars
    /\ UNCHANGED reader_vars

Next ==
    \/ ParseModuleTree
    \/ BuildComponentMap
    \/ BuildReverseDependencies
    \/ GetProcessingOrder
    \/ AnalyzeDependencies
    \/ AnalyzeModuleDependencies
    \/ InferComponentPurpose
    \/ GenerateAnalysisReport
    \/ GetRepositorySummary
    \/ TakeResult

Spec == Init /\ [][Next]_vars

SpecDeps == InitDeps /\ [][Next]_vars

\* the analyzer is constructed, then two readers query it at the same time
NextReaders ==
    \/ ParseModuleTree
    \/ BuildComponentMap
    \/ BuildReverseDependencies
    \/ \E r \in Readers : ReaderCall(r)
    \/ \E r \in Readers : ReaderReturn(r)
    \/ \E r \in Readers : ReaderTake(r)

SpecReaders == InitReaders /\ [][NextReaders]_vars

\* the orchestrator constructs its analyzer and runs generate_all_documentation
NextDocs ==
    \/ ParseModuleTree
    \/ BuildComponentMap
    \/ BuildReverseDependencies
    \/ StartGeneration
    \/ GenerateLeafModuleDoc
    \/ GenerateParentModuleDoc
    \/ GenerateRepositoryOverview
    \/ GenerateNavigation

SpecDocs == InitDocs /\ [][NextDocs]_vars

\* a DiagramGenerator draws architecture diagrams
NextDiagram ==
    \/ GenerateArchitectureDiagram
    \/ TakeDiagram

SpecDiagram == InitDiagram /\ [][NextDiagram]_vars

(***************************************************************************)
(* Vocabulary of the properties                                            *)
(***************************************************************************)
\* the last query was op
IsResult(op) == "op" \in DOMAIN result /\ result.op = op

\* the last query returned a value (it did not raise)
Returned == "ret" \in DOMAIN result

\* the constructor has returned
Ready == pc = "ready"

\* the module tree has been parsed
Parsed == pc # "parse"

\* the keys of the module tree in the order the parser visits them
RECURSIVE PathList(_)
PathList(tree) ==
    IF tree = <<>> THEN <<>>
    ELSE <<Head(tree)[1]>> \o PathList(Get(Head(tree)[2], "children", <<>>))
         \o PathList(Tail(tree))

\* every module path occurs once in the module tree
UniquePaths(tree) ==
    \A i, j \in 1..Len(PathList(tree)) :
        PathList(tree)[i] = PathList(tree)[j] => i = j

\* the pairs <<M, D>> where some node keyed D lies below some node keyed M
RECURSIVE DescPairs(_)
DescPairs(tree) ==
    IF tree = <<>> THEN {}
    ELSE LET kids == Get(Head(tree)[2], "children", <<>>)
         IN {<<Head(tree)[1], d>> : d \in Range(PathList(kids))}
            \cup DescPairs(kids) \cup DescPairs(Tail(tree))

\* the 0-based index of the batch of order that holds path
BatchIndex(order, path) ==
    (CHOOSE i \in 1..Len(order) : path \in Range(order[i])) - 1

\* the batches of order concatenated
RECURSIVE Flatten(_)
Flatten(order) ==
    IF order = <<>> THEN <<>> ELSE Head(order) \o Flatten(Tail(order))

ModuleInfo(path) == Lookup(parsed_tree.modules, path)

ModulePaths == KeySet(parsed_tree.modules)

LevelsUsed == {ModuleInfo(p).level : p \in ModulePaths}

\* the one level shared by the modules of a batch (-1 if they differ)
BatchLevel(batch) ==
    IF \A p \in Range(batch) : ModuleInfo(p).level = ModuleInfo(batch[1]).level
    THEN ModuleInfo(batch[1]).level ELSE -1

OrderReturned == IsResult("get_processing_order") /\ Returned

(***************************************************************************)
(* Processing order                                                        *)
(***************************************************************************)
\* C1 as stated: every descendant module of M in the module tree is in a
\* strictly earlier batch than M.
C1_DescendantsEarlier_AnyTree ==
    OrderReturned =>
        \A pr \in DescPairs(module_tree) :
            BatchIndex(result.ret, pr[2]) < BatchIndex(result.ret, pr[1])

\* C1 amended: when every module path occurs once in the module tree, every
\* descendant module of M is in a strictly earlier batch than M.
C1_DescendantsEarlier ==
    OrderReturned /\ UniquePaths(module_tree) =>
        \A pr \in DescPairs(module_tree) :
            BatchIndex(result.ret, pr[2]) < BatchIndex(result.ret, pr[1])

\* a chain root -> child -> grandchild of distinct paths has been ordered
C1_Witness ==
    /\ OrderReturned
    /\ UniquePaths(module_tree)
    /\ \E m, c, g \in Paths :
         {<<m, c>>, <<c, g>>, <<m, g>>} \subseteq DescPairs(module_tree)

\* C2: for a non-empty module tree the batches together hold exactly the keys
\* of parsed_tree["modules"], each path once.
C2_OrderComplete ==
    IsResult("get_processing_order") /\ module_tree # <<>> =>
        /\ Returned
        /\ Range(Flatten(result.ret)) = ModulePaths
        /\ Len(Flatten(result.ret)) = Cardinality(ModulePaths)

\* three modules on two levels have been ordered
C2_Witness ==
    /\ OrderReturned
    /\ Cardinality(ModulePaths) = 3
    /\ Len(result.ret) = 2

\* C3 as stated: the index of the batch of M equals M's level.
C3_IndexIsLevel ==
    OrderReturned =>
        \A p \in ModulePaths : BatchIndex(result.ret, p) = ModuleInfo(p).level

\* C3 amended: the index of the batch of M is the number of populated levels
\* deeper than M's level; when every module path occurs once in the tree this
\* is the maximum level minus M's level.
C3_IndexCountsDeeperLevels ==
    OrderReturned =>
        /\ \A p \in ModulePaths :
             BatchIndex(result.ret, p) =
                Cardinality({l \in LevelsUsed : l > ModuleInfo(p).level})
        /\ UniquePaths(module_tree) =>
             \A p \in ModulePaths :
                BatchIndex(result.ret, p) = Max(LevelsUsed) - ModuleInfo(p).level

\* a tree of three levels has been ordered: the root is in batch 2, at level 0
C3_Witness ==
    /\ OrderReturned
    /\ UniquePaths(module_tree)
    /\ \E p \in ModulePaths :
         ModuleInfo(p).level = 0 /\ BatchIndex(result.ret, p) = 2

\* C4 as stated: strictly decreasing levels, one level per batch, the first
\* batch is the maximum level, the last batch is level 0, no batch is empty.
C4_DecreasingToLevelZero ==
    OrderReturned =>
        LET order == result.ret IN
        /\ \A i \in 1..Len(order) : Len(order[i]) > 0 /\ BatchLevel(order[i]) >= 0
        /\ \A i, j \in 1..Len(order) :
             i < j => BatchLevel(order[i]) > BatchLevel(order[j])
        /\ BatchLevel(order[1]) = Max(LevelsUsed)
        /\ BatchLevel(order[Len(order)]) = 0

\* C4 amended: strictly decreasing levels, one level per batch, no batch is
\* empty, the first batch is the maximum level and the last batch the minimum
\* level, which is level 0 (the root modules) when every module path occurs
\* once in the tree.
C4_DecreasingLevels ==
    OrderReturned =>
        LET order == result.ret IN
        /\ \A i \in 1..Len(order) : Len(order[i]) > 0 /\ BatchLevel(order[i]) >= 0
        /\ \A i, j \in 1..Len(order) :
             i < j => BatchLevel(order[i]) > BatchLevel(order[j])
        /\ BatchLevel(order[1]) = Max(LevelsUsed)
        /\ \A l \in LevelsUsed : BatchLevel(order[Len(order)]) <= l
        /\ UniquePaths(module_tree) =>
             /\ BatchLevel(order[Len(order)]) = 0
             /\ Range(order[Len(order)]) = Range(parsed_tree.root_modules)

\* two roots and a child have been ordered in two batches
C4_Witness ==
    /\ OrderReturned
    /\ UniquePaths(module_tree)
    /\ Len(result.ret) = 2
    /\ Len(result.ret[2]) = 2

(***************************************************************************)
(* Module tree parser                                                      *)
(***************************************************************************)
\* C5: every parsed module has is_leaf == (children is empty) and is listed
\* in leaf_modules when it is a leaf and in parent_modules otherwise.
C5_LeafFlag ==
    Parsed =>
        \A p \in ModulePaths :
            /\ ModuleInfo(p).is_leaf = (Len(ModuleInfo(p).children) = 0)
            /\ ModuleInfo(p).is_leaf => p \in Range(parsed_tree.leaf_modules)
            /\ ~ModuleInfo(p).is_leaf => p \in Range(parsed_tree.parent_modules)

\* a tree with a parent module and a leaf module has been parsed
C5_Witness ==
    /\ Parsed
    /\ \E p, q \in ModulePaths : ModuleInfo(p).is_leaf /\ ~ModuleInfo(q).is_leaf

\* the number of pairs <<A, p>> of the tree: the ancestors of p
Ancestors(p) == {pr \in DescPairs(module_tree) : pr[2] = p}

LevelsConsistent ==
    \A p \in ModulePaths :
        /\ ModuleInfo(p).parent # None =>
             /\ ModuleInfo(p).parent \in ModulePaths
             /\ ModuleInfo(p).level = ModuleInfo(ModuleInfo(p).parent).level + 1
        /\ (ModuleInfo(p).parent = None) = (p \in Range(parsed_tree.root_modules))
        /\ p \in Range(parsed_tree.root_modules) => ModuleInfo(p).level = 0
        /\ ModuleInfo(p).level = Cardinality(Ancestors(p))

\* C6 as stated: a module is one level below its parent, parent == None
\* exactly for the root modules, roots have level 0, and the level is the
\* number of ancestors.
C6_Levels_AnyTree == Parsed => LevelsConsistent

\* C6 amended: the same, when every module path occurs once in the tree.
C6_Levels == Parsed /\ UniquePaths(module_tree) => LevelsConsistent

\* a module with two ancestors has been parsed
C6_Witness ==
    /\ Parsed
    /\ UniquePaths(module_tree)
    /\ \E p \in ModulePaths : ModuleInfo(p).level = 2

(***************************************************************************)
(* Component map and reverse dependency index                              *)
(***************************************************************************)
ComponentIds == KeySet(component_map)

ComponentInfo(id) == Lookup(component_map, id)

\* the number of occurrences of x in the list s
Count(s, x) == Cardinality({i \in 1..Len(s) : s[i] = x})

\* C7: after construction every record has dependency_count ==
\* len(depends_on) and dependent_count == len(depended_by).
C7_Counts ==
    Ready =>
        \A c \in ComponentIds :
            /\ ComponentInfo(c).dependency_count = Len(ComponentInfo(c).depends_on)
            /\ ComponentInfo(c).dependent_count = Len(ComponentInfo(c).depended_by)

\* a component that nobody depends on lists one existing target twice
C7_Witness ==
    /\ Ready
    /\ \E c \in ComponentIds :
         /\ ComponentInfo(c).depended_by = <<>>
         /\ Len(ComponentInfo(c).depends_on) = 2
         /\ ComponentInfo(c).depends_on[1] = ComponentInfo(c).depends_on[2]
         /\ Has(component_map, ComponentInfo(c).depends_on[1])
         /\ ComponentInfo(ComponentInfo(c).depends_on[1]).dependent_count = 2

\* C8: for every edge (a depends_on b) of the dependency graph with b a key
\* of the component map, a is an element of component_map[b].depended_by.
C8_ReverseRoundTrip ==
    Ready =>
        \A i \in 1..Len(dependency_graph) :
            \A b \in Range(Get(dependency_graph[i][2], "depends_on", <<>>)) :
                Has(component_map, b) =>
                    dependency_graph[i][1] \in Range(ComponentInfo(b).depended_by)

\* a component that two different components depend on
C8_Witness ==
    /\ Ready
    /\ \E b \in ComponentIds :
         Cardinality(Range(ComponentInfo(b).depended_by)) = 2

(***************************************************************************)
(* Component-level dependency analysis                                     *)
(***************************************************************************)
\* analyze_dependencies returned for a component of the map
Analyzed == IsResult("analyze_dependencies") /\ Has(component_map, result.arg)

\* the ids of a list of dependency records
IdsOf(infos) == [i \in 1..Len(infos) |-> infos[i].id]

\* t is in the map and in the module of the queried component
InternalTo(c, t) ==
    Has(component_map, t) /\ ComponentInfo(t).module = ComponentInfo(c).module

\* the edges listed in ids are split into internal and external by InternalTo
Partitioned(c, ids, internal, external) ==
    \A t \in CompIds :
        LET n == IF Has(component_map, t) THEN Count(ids, t) ELSE 0
        IN /\ Count(IdsOf(internal), t) = (IF InternalTo(c, t) THEN n ELSE 0)
           /\ Count(IdsOf(external), t) = (IF InternalTo(c, t) THEN 0 ELSE n)

\* C9: every depends_on target that is in the map is in exactly one of
\* internal_dependencies / external_dependencies, internal iff its module
\* equals the module of the queried component (None equals None, "a/b" differs
\* from "a"); likewise depended_by and the two dependents lists.
C9_Partition ==
    Analyzed =>
        /\ Partitioned(result.arg, ComponentInfo(result.arg).depends_on,
                       result.ret.internal_dependencies,
                       result.ret.external_dependencies)
        /\ Partitioned(result.arg, ComponentInfo(result.arg).depended_by,
                       result.ret.internal_dependents,
                       result.ret.external_dependents)

\* a component without a module whose dependencies are a component without a
\* module (internal) and a component of "a/b" (external)
C9_Witness ==
    /\ Analyzed
    /\ ComponentInfo(result.arg).module = None
    /\ Len(result.ret.internal_dependencies) = 1
    /\ result.ret.internal_dependencies[1].id # result.arg
    /\ Len(result.ret.external_dependencies) = 1
    /\ result.ret.external_dependencies[1].module = "a/b"

\* the list of paths is in strictly ascending string order
StrictlySorted(s) ==
    \A i, j \in 1..Len(s) : i < j => PathRank(s[i]) < PathRank(s[j])

\* C10 as stated: dependency_modules is the sorted duplicate-free list of the
\* module of every entry of external_dependencies; dependent_modules likewise.
C10_ModulesOfAllExternals ==
    Analyzed =>
        /\ Range(result.ret.dependency_modules) =
              {e.module : e \in Range(result.ret.external_dependencies)}
        /\ StrictlySorted(result.ret.dependency_modules)
        /\ Range(result.ret.dependent_modules) =
              {e.module : e \in Range(result.ret.external_dependents)}
        /\ StrictlySorted(result.ret.dependent_modules)

\* C10 amended: dependency_modules is the sorted duplicate-free list of the
\* modules, other than None, of the entries of external_dependencies;
\* dependent_modules likewise.
C10_ModulesOfAssignedExternals ==
    Analyzed =>
        /\ Range(result.ret.dependency_modules) =
              {e.module : e \in {x \in Range(result.ret.external_dependencies) :
                                   Truthy(x.module)}}
        /\ StrictlySorted(result.ret.dependency_modules)
        /\ Range(result.ret.dependent_modules) =
              {e.module : e \in {x \in Range(result.ret.external_dependents) :
                                   Truthy(x.module)}}
        /\ StrictlySorted(result.ret.dependent_modules)

\* external dependencies met in the order "b", "a/b" are reported as "a/b", "b"
C10_Witness ==
    /\ Analyzed
    /\ Len(result.ret.external_dependencies) = 2
    /\ result.ret.external_dependencies[1].module = "b"
    /\ result.ret.external_dependencies[2].module = "a/b"
    /\ result.ret.dependency_modules = <<"a/b", "b">>

(***************************************************************************)
(* Lookups of absent ids, and raising                                      *)
(***************************************************************************)
\* what the constructor builds from the two inputs
BuiltTree == parse_module_tree(module_tree)

BuiltMaps ==
    build_reverse_dependencies(build_component_map(dependency_graph, BuiltTree))

\* the three derived structures are as the constructor left them
StructuresIntact ==
    /\ parsed_tree = BuiltTree
    /\ component_map = BuiltMaps.component_map
    /\ reverse_deps = BuiltMaps.reverse_deps

\* the last query looked up a component id that is not in the map
AbsentComponentQueried ==
    /\ IsResult("analyze_dependencies") \/ IsResult("infer_component_purpose")
    /\ ~Has(component_map, result.arg)

\* the last query looked up a module path that is not in the parsed tree
AbsentModuleQueried ==
    /\ IsResult("analyze_module_dependencies")
         \/ IsResult("generate_analysis_report")
    /\ ~Has(parsed_tree.modules, result.arg)

ResultLists ==
    {"internal_dependencies", "external_dependencies", "internal_dependents",
     "external_dependents", "dependency_modules", "dependent_modules"}

\* C11: a lookup of an absent component id or module path returns a record
\* with an error field, does not raise, and leaves parsed_tree, component_map
\* and reverse_deps as they were; analyze_dependencies returns its six lists
\* empty.
C11_AbsentGivesError ==
    AbsentComponentQueried \/ AbsentModuleQueried =>
        /\ Returned
        /\ "error" \in DOMAIN result.ret
        /\ StructuresIntact
        /\ IsResult("analyze_dependencies") =>
             \A f \in ResultLists :
                 f \in DOMAIN result.ret /\ result.ret[f] = <<>>

\* a report was asked for a module that is absent from a tree with modules,
\* and a component was absent from a map with components
C11_Witness ==
    /\ IsResult("generate_analysis_report")
    /\ AbsentModuleQueried
    /\ parsed_tree.modules # <<>>
    /\ Len(component_map) > 0
    /\ "error" \in DOMAIN result.ret

\* C12 as stated: none of get_processing_order, get_repository_summary,
\* generate_analysis_report and analyze_dependencies raises, whatever the
\* well-formed inputs, the empty tree and the empty graph included.
C12_NeverRaises ==
    /\ result # Unset
    /\ result.op \in {"get_processing_order", "get_repository_summary",
                      "generate_analysis_report", "analyze_dependencies"}
    => Returned

(***************************************************************************)
(* Module-level analysis                                                   *)
(***************************************************************************)
\* analyze_module_dependencies returned for a module of the parsed tree
ModuleAnalyzed ==
    IsResult("analyze_module_dependencies") /\ Has(parsed_tree.modules, result.arg)

\* the edges c -> t of the graph, once for every time the module lists c
ListedEdges(path, c, t) ==
    IF Has(component_map, c)
    THEN Count(ModuleInfo(path).components, c)
           * Count(ComponentInfo(c).depends_on, t)
    ELSE 0

\* the internal records c -> t of the result
InternalRecords(c, t) ==
    Cardinality({i \in 1..Len(result.ret.internal_dependencies) :
        /\ result.ret.internal_dependencies[i].from = c
        /\ result.ret.internal_dependencies[i].to = t})

\* the relationships c -> t in the groups of module mod
GroupRecords(groups, key, mod, c, t) ==
    Cardinality({gi \in UNION {{<<g, i>> : i \in 1..Len(groups[g].relationships)} :
                                 g \in 1..Len(groups)} :
        /\ groups[gi[1]][key] = mod
        /\ groups[gi[1]].relationships[gi[2]] =
             [from_component |-> c, to_component |-> t]})

ExternalRecords(mod, c, t) ==
    GroupRecords(result.ret.external_dependencies, "target_module", mod, c, t)

\* the sum of F over the pairs of component ids
RECURSIVE SumOver(_, _)
SumOver(F(_, _), pairs) ==
    IF pairs = {} THEN 0
    ELSE LET pr == CHOOSE x \in pairs : TRUE
         IN F(pr[1], pr[2]) + SumOver(F, pairs \ {pr})

ModuleOf(t) == ComponentInfo(t).module

\* C13 as stated: every edge from a listed component to a target of the map
\* is recorded once, as internal when the target's module is the queried
\* one and else in the group of the target's module, and the two edge
\* counts add up to the number of these edges.
C13_EveryEdgeToMapRecorded ==
    ModuleAnalyzed =>
      LET path == result.arg
          ToMap(c, t) == IF Has(component_map, t) THEN ListedEdges(path, c, t) ELSE 0
      IN /\ \A c \in CompIds, t \in CompIds :
              Has(component_map, t) =>
                IF ModuleOf(t) = path
                THEN InternalRecords(c, t) = ListedEdges(path, c, t)
                ELSE ExternalRecords(ModuleOf(t), c, t) = ListedEdges(path, c, t)
         /\ result.ret.complexity.internal_edge_count
              + result.ret.complexity.external_edge_count
              = SumOver(ToMap, CompIds \X CompIds)

\* C13: every edge from a listed component to a target that is in the map
\* and assigned to a module is recorded once for each listing of the
\* component: as internal when the target's module is the queried one, else
\* only in the group of the target's module; edges to targets without a
\* module or outside the map are recorded nowhere, and the two edge counts
\* add up to the number of edges to assigned targets.
C13_EveryEdgeToModuleRecorded ==
    ModuleAnalyzed =>
      LET path == result.arg
          HasModule(t) == Has(component_map, t) /\ Truthy(ModuleOf(t))
          ToModule(c, t) == IF HasModule(t) THEN ListedEdges(path, c, t) ELSE 0
      IN /\ \A c \in CompIds, t \in CompIds :
              /\ InternalRecords(c, t) =
                   IF HasModule(t) /\ ModuleOf(t) = path
                   THEN ListedEdges(path, c, t) ELSE 0
              /\ \A mod \in Paths \cup {None} :
                   ExternalRecords(mod, c, t) =
                     IF HasModule(t) /\ ModuleOf(t) = mod /\ mod # path
                     THEN ListedEdges(path, c, t) ELSE 0
         /\ result.ret.complexity.internal_edge_count
              + result.ret.complexity.external_edge_count
              = SumOver(ToModule, CompIds \X CompIds)

\* a module with an internal edge and an edge to a component without a module
C13_Witness ==
    /\ ModuleAnalyzed
    /\ result.ret.complexity.internal_edge_count > 0
    /\ \E c \in CompIds, t \in CompIds :
         /\ ListedEdges(result.arg, c, t) > 0
         /\ Has(component_map, t)
         /\ ModuleOf(t) = None

(***************************************************************************)
(* Cohesion                                                                *)
(***************************************************************************)
\* the fraction q equals n / d, and 0.0 when d is zero
IsRatio(q, n, d) ==
    IF d > 0 THEN q.den > 0 /\ q.num * d = n * q.den
    ELSE q.num = 0 /\ q.den > 0

Complexity == result.ret.complexity

\* C14: the cohesion score equals internal_edge_count /
\* (internal_edge_count + external_edge_count), is 0.0 when both counts are
\* zero, lies in [0.0, 1.0], and is 1.0 when the listed components have at
\* least one edge and every edge of theirs goes to a component of the module.
C14_CohesionScore ==
    ModuleAnalyzed =>
      LET path  == result.arg
          score == Complexity.cohesion_score
          total == Complexity.internal_edge_count + Complexity.external_edge_count
          Inside(c, t) ==
              ListedEdges(path, c, t) > 0 =>
                  Has(component_map, t) /\ ModuleOf(t) = path
      IN /\ IsRatio(score, Complexity.internal_edge_count, total)
         /\ score.den > 0 /\ 0 <= score.num /\ score.num <= score.den
         /\ ( /\ \E c \in CompIds, t \in CompIds : ListedEdges(path, c, t) > 0
              /\ \A c \in CompIds, t \in CompIds : Inside(c, t) )
            => score.num = score.den

\* two components of one module depend on each other and on nothing else,
\* and the score is 1.0
C14_Witness ==
    /\ ModuleAnalyzed
    /\ \E c \in CompIds, t \in CompIds :
         /\ c # t
         /\ Count(ModuleInfo(result.arg).components, c) = 1
         /\ Count(ModuleInfo(result.arg).components, t) = 1
         /\ Has(component_map, c) /\ Has(component_map, t)
         /\ ComponentInfo(c).depends_on = <<t>>
         /\ ComponentInfo(t).depends_on = <<c>>
    /\ Complexity.cohesion_score = [num |-> 2, den |-> 2]

\* the edges of the map between two components
MapEdges(c, t) ==
    IF Has(component_map, c) /\ Has(component_map, t)
    THEN Count(ComponentInfo(c).depends_on, t) ELSE 0

\* C15 as stated: the score is the number of edges with both ends owned by
\* the module over the number of edges with at least one end owned by it,
\* incoming edges from other modules included.
C15_TotalCountsIncoming ==
    ModuleAnalyzed =>
      LET path == result.arg
          Both(c, t) ==
              IF Has(component_map, c) /\ Has(component_map, t)
                 /\ ModuleOf(c) = path /\ ModuleOf(t) = path
              THEN MapEdges(c, t) ELSE 0
          Touching(c, t) ==
              IF Has(component_map, c) /\ Has(component_map, t)
                 /\ (ModuleOf(c) = path \/ ModuleOf(t) = path)
              THEN MapEdges(c, t) ELSE 0
      IN IsRatio(Complexity.cohesion_score,
                 SumOver(Both, CompIds \X CompIds),
                 SumOver(Touching, CompIds \X CompIds))

\* C15: the score is the number of edges from listed components to
\* components of the module over the number of edges from listed components
\* to components that have a module; edges that come in from other
\* modules are not counted.
C15_TotalCountsOutgoingOnly ==
    ModuleAnalyzed =>
      LET path == result.arg
          HasModule(t) == Has(component_map, t) /\ Truthy(ModuleOf(t))
          Internal(c, t) ==
              IF HasModule(t) /\ ModuleOf(t) = path
              THEN ListedEdges(path, c, t) ELSE 0
          Outgoing(c, t) ==
              IF HasModule(t) THEN ListedEdges(path, c, t) ELSE 0
      IN IsRatio(Complexity.cohesion_score,
                 SumOver(Internal, CompIds \X CompIds),
                 SumOver(Outgoing, CompIds \X CompIds))

\* a module with an internal edge and an edge coming in from another module
\* scores 1.0
C15_Witness ==
    /\ ModuleAnalyzed
    /\ Complexity.internal_edge_count > 0
    /\ result.ret.external_dependents # <<>>
    /\ Complexity.cohesion_score.num = Complexity.cohesion_score.den

(***************************************************************************)
(* Role inference                                                          *)
(***************************************************************************)
\* infer_component_purpose returned for a component of the map
PurposeInferred ==
    IsResult("infer_component_purpose") /\ Has(component_map, result.arg)

Inferred == result.ret

QueriedInfo == ComponentInfo(result.arg)

\* the fragments in the order the contract fixes
FragmentOrder ==
    <<"manager", "service", "generator", "builder", "analyzer", "parser",
      "handler", "processor", "adapter", "wrapper", "model", "entity", "dto",
      "util", "helper", "config", "settings">>

\* x and y are the same letter in either case
SameLetter(x, y) ==
    x = y \/ \E k \in 1..Len(UpperCase) : {x, y} = {UpperCase[k], LowerCase[k]}

\* the fragment occurs in the name, whatever the case of the letters
OccursIn(fragment, name) ==
    LET f == Chars(fragment)
        n == Chars(name)
    IN \E off \in 0..(Len(n) - Len(f)) :
           \A j \in 1..Len(f) : SameLetter(n[off + j], f[j])

\* the places in the table of the fragments that occur in the name
FragmentsIn(name) ==
    {k \in 1..Len(FragmentOrder) : OccursIn(FragmentOrder[k], name)}

Min(S) == CHOOSE x \in S : \A y \in S : x <= y

\* C16: the role and confidence are those of the first entry, in the fixed
\* table order, whose fragment is a case-insensitive substring of the name,
\* wherever the fragments sit in the name.
C16_FirstTableEntryWins ==
    /\ [k \in 1..Len(role_patterns) |-> role_patterns[k].pattern] = FragmentOrder
    /\ PurposeInferred /\ FragmentsIn(QueriedInfo.name) # {} =>
         LET first == role_patterns[Min(FragmentsIn(QueriedInfo.name))]
         IN /\ Inferred.role = first.role
            /\ Inferred.confidence = first.confidence

\* "model" comes before "builder" in the name ModelBuilder and after it in
\* the table: the role is that of "builder"
C16_Witness ==
    /\ PurposeInferred
    /\ QueriedInfo.name = "ModelBuilder"
    /\ FragmentsIn("ModelBuilder") = {4, 11}
    /\ Inferred.role = "generator"

\* C17: when no fragment occurs in the name the role is model with
\* confidence 0.6 for 0 dependencies, controller with confidence 0.6 for more
\* than 10, and unknown with confidence 0.5 for 1 to 10.
C17_RoleByDependencies ==
    PurposeInferred /\ FragmentsIn(QueriedInfo.name) = {} =>
        LET n == QueriedInfo.dependency_count
        IN /\ n = 0 =>
                Inferred.role = "model" /\ Inferred.confidence = Tenths(6)
           /\ n > 10 =>
                Inferred.role = "controller" /\ Inferred.confidence = Tenths(6)
           /\ n \in 1..10 =>
                Inferred.role = "unknown" /\ Inferred.confidence = Tenths(5)

\* a component without a fragment in its name and with 11 dependencies
C17_Witness ==
    /\ PurposeInferred
    /\ FragmentsIn(QueriedInfo.name) = {}
    /\ QueriedInfo.dependency_count = 11
    /\ Inferred.role = "controller"

\* the notes of the reasoning list that are about the dependents count
DependentsNotes ==
    {i \in 1..Len(Inferred.reasoning) :
        Inferred.reasoning[i][1] \in {"No dependents", "Many dependents"}}

\* what infer_component_purpose returns for the queried component when its
\* two counts are k and m
WithCounts(k, m) ==
    infer_component_purpose(
        << <<result.arg, [QueriedInfo EXCEPT !.dependency_count = k,
                                             !.dependent_count = m]>> >>,
        result.arg)

\* C18: there is a note on the dependents count exactly when dependent_count
\* is 0 or more than 10; the role and the confidence are the same for every
\* dependent_count and, when a fragment matched, for every dependency_count;
\* the confidence is one of 0.5, 0.6, 0.7, 0.8.
C18_NotesDoNotChangeRole ==
    PurposeInferred =>
        LET k == QueriedInfo.dependency_count
            m == QueriedInfo.dependent_count
        IN /\ Cardinality(DependentsNotes) = IF m = 0 \/ m > 10 THEN 1 ELSE 0
           /\ \A m2 \in 0..MaxFanOut :
                /\ WithCounts(k, m2).role = Inferred.role
                /\ WithCounts(k, m2).confidence = Inferred.confidence
           /\ FragmentsIn(QueriedInfo.name) # {} =>
                \A k2 \in 0..MaxFanOut :
                    /\ WithCounts(k2, m).role = Inferred.role
                    /\ WithCounts(k2, m).confidence = Inferred.confidence
           /\ Inferred.confidence \in {Tenths(5), Tenths(6), Tenths(7), Tenths(8)}

\* a component with a fragment in its name, more than 10 dependencies and
\* more than 10 dependents: one note on the dependents, the role of the name
C18_Witness ==
    /\ PurposeInferred
    /\ QueriedInfo.name = "EventHandler"
    /\ QueriedInfo.dependency_count > 10
    /\ QueriedInfo.dependent_count > 10
    /\ Cardinality(DependentsNotes) = 1
    /\ Inferred.role = "processor"

\* the scenario: "manager" in the name, 0 dependencies, 3 dependents
ManagerScenario ==
    /\ PurposeInferred
    /\ OccursIn("manager", QueriedInfo.name)
    /\ QueriedInfo.dependency_count = 0
    /\ QueriedInfo.dependent_count = 3

\* C19 as stated: in the scenario the role is manager, the confidence 0.8,
\* and the reasoning list has a note about the dependents count.
C19_ScenarioHasDependentsNote ==
    ManagerScenario =>
        /\ Inferred.role = "manager"
        /\ Inferred.confidence = Tenths(8)
        /\ DependentsNotes # {}

\* C19: in the scenario the role is manager, the confidence 0.8, and the
\* reasoning list is the note on the name followed by the note on the
\* absence of dependencies; with 3 dependents there is no note about the
\* dependents count.
C19_ScenarioNotes ==
    ManagerScenario =>
        /\ Inferred.role = "manager"
        /\ Inferred.confidence = Tenths(8)
        /\ Len(Inferred.reasoning) = 2
        /\ Inferred.reasoning[1][1] = "Name contains"
        /\ Inferred.reasoning[1][2] = "manager"
        /\ Inferred.reasoning[2] = <<"No dependencies">>
        /\ DependentsNotes = {}

C19_Witness ==
    /\ ManagerScenario
    /\ QueriedInfo.name = "UserManager"
    /\ Inferred.role = "manager"
    /\ Len(Inferred.reasoning) = 2

(***************************************************************************)
(* Queries are read-only                                                   *)
(***************************************************************************)
\* what the query op returns for arg on the structures the constructor built
Answer(op, arg) == query(op, arg, BuiltTree, BuiltMaps.component_map)

\* the value that reader r holds
Held(r) == [f \in DOMAIN readers[r] \ {"at", "op", "arg"} |-> readers[r][f]]

\* reader r holds the value of a call
HasReturned(r) == readers[r].at = "returned"

\* every value a reader holds is the one the query gives on the structures
\* as built, whatever the other reader did during the call
SameAnswerEveryTime ==
    \A r \in Readers :
        HasReturned(r) => Held(r) = Answer(readers[r].op, readers[r].arg)

\* two readers that made the same call hold the same value
SameAnswerToBoth ==
    \A r1, r2 \in Readers :
        /\ HasReturned(r1) /\ HasReturned(r2)
        /\ readers[r1].op = readers[r2].op
        /\ readers[r1].arg = readers[r2].arg
        => Held(r1) = Held(r2)

\* C20: once the constructor has returned, no step of any sequence or
\* interleaving of the six queries by concurrent readers changes parsed_tree,
\* component_map or reverse_deps, and a query returns what the same query
\* with the same argument returns at any other time and to any other reader.
C20_QueriesReadOnly ==
    /\ [](SameAnswerEveryTime /\ SameAnswerToBoth)
    /\ [][pc = "ready" =>
            UNCHANGED <<parsed_tree, component_map, reverse_deps>>]_vars

\* one reader holds a report on a module with a component of the map while
\* the other, which called before that report was returned, is still inside
\* its call; the structures are as built
C20_Witness ==
    /\ HasReturned(1)
    /\ readers[1].op = "generate_analysis_report"
    /\ "components" \in DOMAIN readers[1].ret
    /\ readers[1].ret.components # <<>>
    /\ readers[2].at = "called"
    /\ readers[2].op = "analyze_dependencies"
    /\ StructuresIntact

(***************************************************************************)
(* Construction                                                            *)
(***************************************************************************)
\* the steps of _parse in the order of their calls
BuildSteps ==
    { <<"parse", "build_component_map">>,
      <<"build_component_map", "build_reverse_dependencies">>,
      <<"build_reverse_dependencies", "ready">> }

\* what each step has read and written when the next one starts
BuiltInOrder ==
    /\ pc = "parse" =>
         parsed_tree = Unset /\ component_map = Unset /\ reverse_deps = Unset
    /\ pc = "build_component_map" =>
         parsed_tree = BuiltTree /\ component_map = Unset /\ reverse_deps = Unset
    /\ pc = "build_reverse_dependencies" =>
         /\ parsed_tree = BuiltTree
         /\ component_map = build_component_map(dependency_graph, BuiltTree)
         /\ reverse_deps = Unset
    /\ pc = "ready" => StructuresIntact
    /\ result # Unset => pc = "ready"

\* C21: construction parses the module tree, then builds the component map
\* from the graph and the parsed component_to_module, then builds the
\* reverse index from the component map, each once and in this order, and no
\* query returns before the three are done.
C21_ConstructionOrder ==
    /\ []BuiltInOrder
    /\ [][pc' # pc => <<pc, pc'>> \in BuildSteps]_vars

\* a query has returned on a map whose records carry a module from the tree
\* and dependents from the reverse index
C21_Witness ==
    /\ result # Unset
    /\ \E c \in ComponentIds :
         /\ ComponentInfo(c).module # None
         /\ ComponentInfo(c).depended_by # <<>>

(***************************************************************************)
(* Ownership of components                                                 *)
(***************************************************************************)
\* the nodes of the tree as <<path, components>> in the order the parser
\* visits them: a module before its children, the children in key order
RECURSIVE Listings(_)
Listings(tree) ==
    IF tree = <<>> THEN <<>>
    ELSE <<<<Head(tree)[1], Get(Head(tree)[2], "components", <<>>)>>>>
           \o Listings(Get(Head(tree)[2], "children", <<>>))
           \o Listings(Tail(tree))

\* the places in Listings of the modules that list the component
ListedAt(c) ==
    {i \in 1..Len(Listings(module_tree)) :
        c \in Range(Listings(module_tree)[i][2])}

\* C22: after construction the module of a component is None iff no module
\* lists its id, and else the path of the module visited last among those
\* that list it.
C22_LastListingOwns ==
    Ready =>
        \A c \in ComponentIds :
            IF ListedAt(c) = {}
            THEN ComponentInfo(c).module = None
            ELSE ComponentInfo(c).module =
                   Listings(module_tree)[Max(ListedAt(c))][1]

\* a component listed by two modules of different paths belongs to the later
C22_Witness ==
    /\ Ready
    /\ \E c \in ComponentIds :
         /\ Cardinality({Listings(module_tree)[i][1] : i \in ListedAt(c)}) = 2
         /\ ComponentInfo(c).module = Listings(module_tree)[Max(ListedAt(c))][1]
         /\ ComponentInfo(c).module # Listings(module_tree)[Min(ListedAt(c))][1]

(***************************************************************************)
(* Dangling edges                                                          *)
(***************************************************************************)
\* the ids that some record depends on and that are not in the map
Dangling ==
    {t \in CompIds :
        /\ ~Has(component_map, t)
        /\ \E c \in ComponentIds : t \in Range(ComponentInfo(c).depends_on)}

\* the component ids in the groups of a module-level result
GroupIds(groups) ==
    UNION {UNION {{groups[g].relationships[i].from_component,
                   groups[g].relationships[i].to_component} :
                     i \in 1..Len(groups[g].relationships)} :
             g \in 1..Len(groups)}

\* C23: a depends_on id that is not in the map stays in the record's
\* depends_on as the graph gives it and is counted in dependency_count; the
\* queries return without error, and the id is in no list of
\* analyze_dependencies and in no relationship of
\* analyze_module_dependencies.
C23_DanglingKeptButNotClassified ==
    /\ Ready =>
         \A i \in 1..Len(dependency_graph) :
             LET rec == ComponentInfo(dependency_graph[i][1])
                 given == Get(dependency_graph[i][2], "depends_on", <<>>)
             IN rec.depends_on = given /\ rec.dependency_count = Len(given)
    /\ Analyzed =>
         /\ "error" \notin DOMAIN result.ret
         /\ \A f \in {"internal_dependencies", "external_dependencies",
                      "internal_dependents", "external_dependents"} :
                Range(IdsOf(result.ret[f])) \cap Dangling = {}
         /\ Range(result.ret.dependency_modules) \cap Dangling = {}
         /\ Range(result.ret.dependent_modules) \cap Dangling = {}
    /\ ModuleAnalyzed =>
         /\ "error" \notin DOMAIN result.ret
         /\ \A i \in 1..Len(result.ret.internal_dependencies) :
                result.ret.internal_dependencies[i].to \notin Dangling
         /\ GroupIds(result.ret.external_dependencies) \cap Dangling = {}
         /\ GroupIds(result.ret.external_dependents) \cap Dangling = {}

\* a component with one dependency in the map and one outside of it: the
\* result lists the first only, the record counts both
C23_Witness ==
    /\ Analyzed
    /\ Len(ComponentInfo(result.arg).depends_on) = 2
    /\ Cardinality(Range(ComponentInfo(result.arg).depends_on) \cap Dangling) = 1
    /\ ComponentInfo(result.arg).dependency_count = 2
    /\ Len(result.ret.internal_dependencies)
         + Len(result.ret.external_dependencies) = 1

(***************************************************************************)
(* Module-level mirror                                                     *)
(***************************************************************************)
\* the places <<module, position>> of the tree that list the component
ListedPlaces(c) ==
    UNION {{<<i, j>> : j \in {k \in 1..Len(Listings(module_tree)[i][2]) :
                                 Listings(module_tree)[i][2][k] = c}} :
             i \in 1..Len(Listings(module_tree))}

\* every component id is listed at most once across all components lists
UniqueListing == \A c \in CompIds : Cardinality(ListedPlaces(c)) <= 1

\* external_dependents of analyze_module_dependencies(mod)
DependentsOf(mod) ==
    analyze_module_dependencies(parsed_tree, component_map, mod).external_dependents

\* C27: when every component id is listed at most once and the module paths
\* are unique, the pairs that analyze_module_dependencies(M1) groups under
\* target_module M2 are, with their multiplicities, the pairs that
\* analyze_module_dependencies(M2) groups under source_module M1.
C27_MirroredGroups ==
    ModuleAnalyzed /\ UniqueListing /\ UniquePaths(module_tree) =>
        \A m2 \in ModulePaths \ {result.arg} :
            LET mirrored == DependentsOf(m2)
            IN \A c, t \in CompIds :
                   ExternalRecords(m2, c, t) =
                       GroupRecords(mirrored, "source_module", result.arg, c, t)

\* a module whose component depends twice on a component of another module
C27_Witness ==
    /\ ModuleAnalyzed /\ UniqueListing /\ UniquePaths(module_tree)
    /\ \E m2 \in ModulePaths \ {result.arg} :
         \E c, t \in CompIds :
             /\ ExternalRecords(m2, c, t) = 2
             /\ GroupRecords(DependentsOf(m2), "source_module",
                             result.arg, c, t) = 2

(***************************************************************************)
(* Reverse index                                                           *)
(***************************************************************************)
\* the number of times a lists b in its depends_on (0 for an id not in the map)
Forward(a, b) ==
    IF Has(component_map, a) THEN Count(ComponentInfo(a).depends_on, b) ELSE 0

\* depended_by holds a as often as a depends on b, for every component b
BackwardMatchesForward ==
    \A b \in ComponentIds :
        \A a \in CompIds :
            Count(ComponentInfo(b).depended_by, a) = Forward(a, b)

\* C28 as stated: depended_by mirrors depends_on with multiplicities,
\* reverse_deps[b] is the depended_by list of every component b of the map,
\* and reverse_deps has an entry for every dangling target.
C28_ReverseIndex_EveryComponent ==
    Ready =>
        /\ BackwardMatchesForward
        /\ \A b \in ComponentIds :
              /\ Has(reverse_deps, b)
              /\ Lookup(reverse_deps, b) = ComponentInfo(b).depended_by
        /\ \A t \in Dangling : Has(reverse_deps, t)

\* C28 amended: the same, but reverse_deps has the key b only for a
\* component b that has a dependent; a component nobody depends on has an
\* empty depended_by and no entry in reverse_deps.
C28_ReverseIndex ==
    Ready =>
        /\ BackwardMatchesForward
        /\ \A b \in ComponentIds :
              IF ComponentInfo(b).depended_by # <<>>
              THEN /\ Has(reverse_deps, b)
                   /\ Lookup(reverse_deps, b) = ComponentInfo(b).depended_by
              ELSE ~Has(reverse_deps, b)
        /\ \A t \in Dangling : Has(reverse_deps, t)

\* one component with a dependent, one without, and a dangling target
C28_Witness ==
    /\ Ready
    /\ \E b \in ComponentIds : ComponentInfo(b).depended_by # <<>>
    /\ \E b \in ComponentIds :
         ComponentInfo(b).depended_by = <<>> /\ ~Has(reverse_deps, b)
    /\ \E t \in Dangling : Has(reverse_deps, t)

(***************************************************************************)
(* Summary counts                                                          *)
(***************************************************************************)
\* get_repository_summary returned the counts, not the error record
SummaryReported ==
    /\ IsResult("get_repository_summary")
    /\ Returned
    /\ "error" \notin DOMAIN result.ret

\* the reported counts add up, and the two lists hold every key of the
\* module index once
PartitionsKeys ==
    LET both == parsed_tree.leaf_modules \o parsed_tree.parent_modules
    IN /\ result.ret.leaf_modules = Len(parsed_tree.leaf_modules)
       /\ result.ret.parent_modules = Len(parsed_tree.parent_modules)
       /\ result.ret.total_modules = Cardinality(ModulePaths)
       /\ result.ret.leaf_modules + result.ret.parent_modules
            = result.ret.total_modules
       /\ \A i, j \in 1..Len(both) : both[i] = both[j] => i = j
       /\ Range(both) = ModulePaths

\* C29 as stated: whenever the summary reports counts, leaf_modules +
\* parent_modules == total_modules, the two lists partitioning the keys of
\* the module index without duplicates.
C29_CountsAddUp_AnyTree == SummaryReported => PartitionsKeys

\* C29 amended: the same, when every module path occurs once in the tree.
C29_CountsAddUp ==
    SummaryReported /\ UniquePaths(module_tree) => PartitionsKeys

\* a summary of three modules, leaves and parents among them
C29_Witness ==
    /\ SummaryReported
    /\ UniquePaths(module_tree)
    /\ result.ret.total_modules = 3
    /\ result.ret.leaf_modules >= 1
    /\ result.ret.parent_modules >= 1

(***************************************************************************)
(* The documentation run                                                   *)
(***************************************************************************)
\* this step enters the document of module m in generated_docs
NewlyDocumented(m) == ~Has(generated_docs, m) /\ Has(generated_docs', m)

\* the document of module m, as it is on disk
DocumentOf(m) == Lookup(files, Lookup(generated_docs, m))

\* a step that documents a module with children finds every child in
\* generated_docs and leaves no child out of the document it writes
ChildrenDocumentedFirst ==
    \A m \in Paths :
        NewlyDocumented(m) /\ ModuleInfo(m).children # <<>> =>
            /\ \A c \in KeySet(ModuleInfo(m).children) : Has(generated_docs, c)
            /\ LET doc == Lookup(files', Lookup(generated_docs', m))
               IN doc.format = "parent" =>
                    doc.submodules = Keys(ModuleInfo(m).children)

\* C24 as stated: whenever the document of a module with children is
\* generated, every direct child already has an entry in generated_docs, so
\* no child is missing from the parent's document.
C24_ChildrenFirst_AnyTree == [][ChildrenDocumentedFirst]_vars

\* C24 amended: the same, when every module path occurs once in the tree.
C24_ChildrenFirst ==
    [][UniquePaths(module_tree) => ChildrenDocumentedFirst]_vars

\* the document of a module with two children has been written from theirs
C24_Witness ==
    /\ UniquePaths(module_tree)
    /\ \E m \in Paths :
         /\ Has(generated_docs, m)
         /\ Len(ModuleInfo(m).children) = 2
         /\ DocumentOf(m).format = "parent"
         /\ DocumentOf(m).submodules = Keys(ModuleInfo(m).children)

\* the run has completed
Completed == step = "done"

\* a document that is entered in generated_docs stays as it was written
WrittenOnce ==
    \A i \in 1..Len(generated_docs) :
        /\ Len(generated_docs') >= i
        /\ generated_docs'[i] = generated_docs[i]
        /\ Lookup(files', generated_docs[i][2]) = Lookup(files, generated_docs[i][2])

\* C25: no step of the run generates a document a second time, and on
\* completion the keys of generated_docs are the module paths and
\* '_repository_overview', each with its file on disk.
C25_EveryModuleOnce ==
    /\ [](Completed =>
            /\ KeySet(generated_docs) = ModulePaths \cup {"_repository_overview"}
            /\ Len(generated_docs) = Cardinality(ModulePaths) + 1
            /\ \A i \in 1..Len(generated_docs) : Has(files, generated_docs[i][2]))
    /\ [][WrittenOnce]_vars

\* a completed run over three modules on two levels
C25_Witness ==
    /\ Completed
    /\ Cardinality(ModulePaths) = 3
    /\ Len(processing_order) = 2
    /\ Len(generated_docs) = 4

\* C26: the modules with a leaf document are the leaf modules, the modules
\* with a parent document are the modules that have children.
C26_StepsMatchKinds ==
    step \in {"leaf", "parent", "overview", "navigation", "done"} =>
        \A m \in ModulePaths :
            Has(generated_docs, m) =>
                /\ DocumentOf(m).format = "leaf" <=> ModuleInfo(m).is_leaf
                /\ DocumentOf(m).format = "parent" <=> ModuleInfo(m).children # <<>>

(***************************************************************************)
(* The repository architecture diagram                                     *)
(***************************************************************************)
\* the diagram of the whole repository has been generated
RepositoryDiagram ==
    IsResult("generate_architecture_diagram") /\ result.arg = None

\* the places of the lines of one kind in the diagram
LinesOf(kind) == {i \in 1..Len(result.ret) : result.ret[i].line = kind}

\* the node declarations that carry the id
DeclarationsOf(id) == {i \in LinesOf("node") : result.ret[i].id = id}

\* C30: in the repository diagram every node id is declared by one module,
\* so each end of a 'parent --> child' line names one module.
C30_DistinctNodeIds ==
    RepositoryDiagram =>
        /\ \A i, j \in LinesOf("node") :
               result.ret[i].id = result.ret[j].id => i = j
        /\ \A e \in LinesOf("edge") :
               /\ Cardinality(DeclarationsOf(result.ret[e].from)) = 1
               /\ Cardinality(DeclarationsOf(result.ret[e].to)) = 1

====
